---- MODULE Spec2Model ----
(***************************************************************************)
(* Verification model of the PCM_SEQ2 reader/writer of mspikes             *)
(* (src/src/pcmio.c).  The disk file is a sequence of bytes; the writer,   *)
(* the backward indexer and the entry reader are translated from the C     *)
(* code with the sizes of the format (54-byte entry headers, 4134-byte     *)
(* segments of 1005 + 1021 + 22 samples).                                  *)
(***************************************************************************)
EXTENDS Integers, Sequences, FiniteSets, TLC

(***************************************************************************)
(* Bounds of the model                                                     *)
(***************************************************************************)
MaxEntries == 2
MaxWrites == 2
MaxEntrySamples == 4096
MaxReads == 2
MaxReadsT == 2
MaxReadsM == 2
MaxReadsG == 1
MaxReadsU == 1
MaxStream == 4
MaxBlock == 3

(***************************************************************************)
(* Constants of the format                                                 *)
(***************************************************************************)
SegmentSamples == 2048
Block1 == 1005
Block12 == 2026
EntryHdrSize == 54
SegmentSize == 4134
BELOW_THRESHOLD == 1
BEFORE_PEAK == 2
AFTER_PEAK == 3
PCMIOMMAP == 1
PCMIOMALLOC == 2
PCMIOSETSR == 6
PCMIOGETSIZE == 7
PCMIOGETSR == 8
PCMIOGETENTRY == 9
PCMIOGETTIME == 10
PCMIOGETTIMEFRACTION == 13
PCMIOGETNENTRIES == 14
SegHdrRead == 36
EntHdrRead == 56
KeyLen == 28
CACHESIZE == 500
DefaultSampleRate == 20000

Zeros(n) == [i \in 1..n |-> 0]

\* sexconv16 on a little-endian host is the identity on the stored value:
\* the two bytes of v (a 16-bit two's complement short) in file order
Le16(v) == <<v % 256, (v \div 256) % 256>>

\* the four low bytes of a long: v is a 32-bit two's complement value
Le32(v) ==
    LET lo == v % 65536
        hi == ((v - lo) \div 65536) % 65536
    IN  Le16(lo) \o Le16(hi)

\* int from four bytes (memcpy + sexconv32), two's complement
Int32(b) ==
    LET u == b[1] + 256 * b[2] + 65536 * (b[3] + 256 * (IF b[4] >= 128 THEN b[4] - 256 ELSE b[4]))
    IN  u

(***************************************************************************)
(* The underlying stdio stream of the write handle: the bytes of the       *)
(* file, the stream position, the sticky error indicator (ferror), and     *)
(* the rc accumulated by the putshort/putlong/putchars/putdata macros.     *)
(***************************************************************************)
\* fwrite of bytes at stream position pos (a position past the end leaves a
\* zero-filled hole, as a file opened with fopen(.., "w") does)
WriteAt(f, pos, bytes) ==
    IF pos = Len(f) THEN f \o bytes
    ELSE IF pos > Len(f) THEN f \o Zeros(pos - Len(f)) \o bytes
    ELSE SubSeq(f, 1, pos) \o bytes \o SubSeq(f, pos + Len(bytes) + 1, Len(f))

\* one fwrite: on a failed stream nothing is written and the macro sets rc
put(s, bytes) ==
    IF s.err THEN [s EXCEPT !.rc = 1]
    ELSE [s EXCEPT !.f = WriteAt(s.f, s.pos, bytes), !.pos = s.pos + Len(bytes)]

putshort(s, val) == put(s, Le16(val))
putlong(s, val) == put(s, Le32(val))
putchars(s, bytes) == put(s, bytes)
\* putdata without sexconv_needed: one fwrite of nsamples shorts from ptr
putdata(s, data, ptr, nsamples) == put(s, SubSeq(data, 2 * ptr + 1, 2 * (ptr + nsamples)))

\* fseek(fd, pos, SEEK_SET): fails (position unchanged) on a negative offset
fseekset(s, pos) == IF pos < 0 THEN s ELSE [s EXCEPT !.pos = pos]
\* a seek to the end that leaves the stream where it is
fseekend_stay(s) == s

\* fseek(fd, 0, SEEK_END)
fseekend(s) == [s EXCEPT !.pos = Len(s.f)]

(***************************************************************************)
(* unsigned long long arithmetic (mod 2^64) on eight little-endian bytes   *)
(***************************************************************************)
\* (unsigned long long) of an int or long n: sign-extended two's complement
U64(n) ==
    LET b4 == Le32(n)
        ext == IF n < 0 THEN 255 ELSE 0
    IN  b4 \o <<ext, ext, ext, ext>>

RECURSIVE U64AddFrom(_, _, _, _)
U64AddFrom(x, y, i, carry) ==
    IF i > 8 THEN <<>>
    ELSE LET t == x[i] + y[i] + carry
         IN  <<t % 256>> \o U64AddFrom(x, y, i + 1, t \div 256)

U64Add(x, y) == U64AddFrom(x, y, 1, 0)

RECURSIVE U64MulFrom(_, _, _, _)
U64MulFrom(x, k, i, carry) ==
    IF i > 8 THEN <<>>
    ELSE LET t == x[i] * k + carry
         IN  <<t % 256>> \o U64MulFrom(x, k, i + 1, t \div 256)

\* x * k for 0 <= k < 2^16
U64Mul(x, k) == U64MulFrom(x, k, 1, 0)

\* x - y
U64Sub(x, y) == U64AddFrom(x, [i \in 1..8 |-> 255 - y[i]], 1, 1)

\* the j-th hexadecimal digit of x, the lowest being the first
Nibble(x, j) == IF j % 2 = 1 THEN x[(j + 1) \div 2] % 16 ELSE x[j \div 2] \div 16

\* long division of the digits j..1 of x by k, rem carried in from above:
\* the digits of the quotient, lowest first, and the remainder
RECURSIVE U64DivFrom(_, _, _, _)
U64DivFrom(x, k, j, rem) ==
    IF j = 0 THEN [q |-> <<>>, r |-> rem]
    ELSE LET t == rem * 16 + Nibble(x, j)
             above(rest) == [q |-> rest.q \o <<t \div k>>, r |-> rest.r]
         IN  above(U64DivFrom(x, k, j - 1, t % k))

\* x / k and x % k for 0 < k < 2^27
U64Div(x, k) ==
    LET bytes(d) == [i \in 1..8 |-> d.q[2 * i - 1] + 16 * d.q[2 * i]]
    IN  bytes(U64DivFrom(x, k, 16, 0))
U64Mod(x, k) == U64DivFrom(x, k, 16, 0).r

\* 0x007c95674beb4000LL in file order
EpochBytes == <<0, 64, 235, 75, 103, 149, 124, 0>>

\* lltime of pcmseq2_write_hdr from seconds and microseconds
lltime(sec, usec) ==
    LET t1 == U64Mul(U64Mul(U64(sec - 18000), 10000), 1000)
        t2 == U64Add(t1, U64Mul(U64(usec), 10))
    IN  U64Add(t2, EpochBytes)

(***************************************************************************)
(* pcmseq2_write_hdr and pcmseq2_write_data                                *)
(***************************************************************************)
\* the first seven characters of the file name ("rec.pcm_seq2")
basename == <<114, 101, 99, 46, 112, 99, 109>>

Digit(d) == 48 + d

\* sprintf("%3d", e) for -99 <= e <= 999
Fmt3d(e) ==
    IF e < 0
    THEN IF e > -10 THEN <<32, 45, Digit(-e)>> ELSE <<45, Digit((-e) \div 10), Digit((-e) % 10)>>
    ELSE IF e < 10 THEN <<32, 32, Digit(e)>>
    ELSE IF e < 100 THEN <<32, Digit(e \div 10), Digit(e % 10)>>
    ELSE <<Digit(e \div 100), Digit((e \div 10) % 10), Digit(e % 10)>>

\* the init_key of pcmseq2_write_hdr: " 2", the base name, blanks, "%3d   1"
InitKey(e) ==
    <<32, 50>> \o basename \o [i \in 1..12 |-> 32] \o Fmt3d(e) \o <<32, 32, 32, 49>>

\* fp->pcmseq3_key[1] = '3'
MatchKey(key) == [key EXCEPT ![2] = 51]

\* the eight unchecked one-byte fwrite calls of the date
putraw(s, bytes) ==
    IF s.err THEN s
    ELSE [s EXCEPT !.f = WriteAt(s.f, s.pos, bytes), !.pos = s.pos + Len(bytes)]

\* the stream after pcmseq2_write_hdr; VMS is not defined, so no record sizes
write_hdr_stream(s, e, sr, ts, us, clock) ==
    LET lt == IF ts = 0 THEN lltime(clock[1], clock[2]) ELSE lltime(ts, us)
        s1 == putshort(s, 3)
        s2 == putchars(s1, InitKey(e))
        s3 == putraw(s2, lt)
        s4 == putlong(s3, SegmentSamples)
        s5 == putlong(s4, 1)
        s6 == putlong(s5, 134913)
    IN  putlong(s6, sr)

FIRSTSEG == 1
MIDDLESEG == 2
LASTSEG == 3

\* the block state pcmseq2_write_data derives from cursamp
SegState(cursamp) ==
    IF cursamp < Block1 THEN FIRSTSEG
    ELSE IF cursamp >= Block12 THEN LASTSEG
    ELSE MIDDLESEG

\* a padding buffer that is not zero
zeropad_ones == [i \in 1..(2 * SegmentSamples) |-> 1]

zeropad == Zeros(2 * SegmentSamples)

\* a pass that writes the control word 0 where the last block begins
WDBody_no_last_word(w, lastsegment, key, entrysize) ==
    LET togo == IF w.state = FIRSTSEG THEN Block1 - w.cursamp
                ELSE IF w.state = MIDDLESEG THEN Block12 - w.cursamp
                ELSE SegmentSamples - w.cursamp
        \* the test after the switch: the rest of the last segment is zeros
        padded(w1) ==
            IF (lastsegment # 0) /\ (w1.nsamples = 0) /\ (w1.cursamp > 0)
            THEN [w1 EXCEPT !.nsamples = SegmentSamples - w1.cursamp, !.data = zeropad, !.ptr = 0]
            ELSE w1
        \* case LASTSEG once the samples are out (stream sd, left samples to
        \* go): the header of the next segment is written at once (to sh)
        nextsegment(sd, left) ==
            LET more == (lastsegment = 0) \/ (left > 0)
                recordwords == IF (lastsegment # 0) /\ (left <= SegmentSamples)
                               THEN entrysize ELSE 0
                header(sh) ==
                    [w EXCEPT !.s = IF more THEN putlong(sh, recordwords) ELSE sd,
                              !.poscache = IF more THEN sh.pos ELSE w.poscache,
                              !.ptr = w.ptr + togo,
                              !.nsamples = left,
                              !.cursamp = 0,
                              !.state = FIRSTSEG]
            IN  header(putchars(putshort(sd, 1), key))
    IN  padded(IF w.nsamples < togo
               THEN [w EXCEPT !.s = putdata(w.s, w.data, w.ptr, w.nsamples),
                              !.ptr = w.ptr + w.nsamples,
                              !.cursamp = w.cursamp + w.nsamples,
                              !.nsamples = 0]
               ELSE IF w.state = FIRSTSEG
               THEN [w EXCEPT !.s = putshort(putdata(w.s, w.data, w.ptr, togo), 0),
                              !.ptr = w.ptr + togo,
                              !.nsamples = w.nsamples - togo,
                              !.cursamp = Block1,
                              !.state = MIDDLESEG]
               ELSE IF w.state = MIDDLESEG
               THEN [w EXCEPT !.s = putshort(putdata(w.s, w.data, w.ptr, togo), 0),
                              !.ptr = w.ptr + togo,
                              !.nsamples = w.nsamples - togo,
                              !.cursamp = Block12,
                              !.state = LASTSEG]
               ELSE nextsegment(IF togo > 0 THEN putdata(w.s, w.data, w.ptr, togo) ELSE w.s,
                                w.nsamples - togo))

\* one pass of the switch in the while loop of pcmseq2_write_data, followed
\* by the zero padding test at the end of the loop body
WDBody(w, lastsegment, key, entrysize) ==
    LET togo == IF w.state = FIRSTSEG THEN Block1 - w.cursamp
                ELSE IF w.state = MIDDLESEG THEN Block12 - w.cursamp
                ELSE SegmentSamples - w.cursamp
        \* the test after the switch: the rest of the last segment is zeros
        padded(w1) ==
            IF (lastsegment # 0) /\ (w1.nsamples = 0) /\ (w1.cursamp > 0)
            THEN [w1 EXCEPT !.nsamples = SegmentSamples - w1.cursamp, !.data = zeropad, !.ptr = 0]
            ELSE w1
        \* case LASTSEG once the samples are out (stream sd, left samples to
        \* go): the header of the next segment is written at once (to sh)
        nextsegment(sd, left) ==
            LET more == (lastsegment = 0) \/ (left > 0)
                recordwords == IF (lastsegment # 0) /\ (left <= SegmentSamples)
                               THEN entrysize ELSE 0
                header(sh) ==
                    [w EXCEPT !.s = IF more THEN putlong(sh, recordwords) ELSE sd,
                              !.poscache = IF more THEN sh.pos ELSE w.poscache,
                              !.ptr = w.ptr + togo,
                              !.nsamples = left,
                              !.cursamp = 0,
                              !.state = FIRSTSEG]
            IN  header(putchars(putshort(sd, 1), key))
    IN  padded(IF w.nsamples < togo
               THEN [w EXCEPT !.s = putdata(w.s, w.data, w.ptr, w.nsamples),
                              !.ptr = w.ptr + w.nsamples,
                              !.cursamp = w.cursamp + w.nsamples,
                              !.nsamples = 0]
               ELSE IF w.state = FIRSTSEG
               THEN [w EXCEPT !.s = putshort(putdata(w.s, w.data, w.ptr, togo), 0),
                              !.ptr = w.ptr + togo,
                              !.nsamples = w.nsamples - togo,
                              !.cursamp = Block1,
                              !.state = MIDDLESEG]
               ELSE IF w.state = MIDDLESEG
               THEN [w EXCEPT !.s = putshort(putdata(w.s, w.data, w.ptr, togo), 2),
                              !.ptr = w.ptr + togo,
                              !.nsamples = w.nsamples - togo,
                              !.cursamp = Block12,
                              !.state = LASTSEG]
               ELSE nextsegment(IF togo > 0 THEN putdata(w.s, w.data, w.ptr, togo) ELSE w.s,
                                w.nsamples - togo))

RECURSIVE WDLoop(_, _, _, _)
WDLoop(w, lastsegment, key, entrysize) ==
    IF w.nsamples > 0 THEN WDLoop(WDBody(w, lastsegment, key, entrysize), lastsegment, key, entrysize)
    ELSE w

\* the locals of pcmseq2_write_data when it comes to its while loop
WDEnter(h, data, nsamples, lastsegment) ==
    LET pad == (lastsegment # 0) /\ (nsamples = 0)
    IN  [s |-> [h.s EXCEPT !.rc = 0],
         cursamp |-> h.cursamp,
         state |-> SegState(h.cursamp),
         nsamples |-> IF pad THEN SegmentSamples - h.cursamp ELSE nsamples,
         data |-> IF pad THEN zeropad ELSE data,
         ptr |-> 0,
         poscache |-> h.poscache]

\* a return that does not store cursamp back into the handle
WDReturn_cursamp_lost(h, w, nsamples, lastsegment) ==
    LET entrysize == h.entrysize + nsamples
        done(sb) ==
            [h EXCEPT !.s = sb,
                      !.entrysize = entrysize,
                      !.poscache = w.poscache,
                      !.rc = IF (sb.rc # 0) \/ sb.err THEN -1 ELSE 0]
    IN  done(IF lastsegment # 0
             THEN fseekend(putlong(fseekset(w.s, w.poscache), entrysize))
             ELSE w.s)

\* the handle pcmseq2_write_data returns with when its loop has left w
WDReturn(h, w, nsamples, lastsegment) ==
    LET entrysize == h.entrysize + nsamples
        \* the handle when the stream is sb
        done(sb) ==
            [h EXCEPT !.s = sb,
                      !.entrysize = entrysize,
                      !.cursamp = w.cursamp,
                      !.poscache = w.poscache,
                      !.rc = IF (sb.rc # 0) \/ sb.err THEN -1 ELSE 0]
        \* the sample count of the entry is patched into its last segment
    IN  done(IF lastsegment # 0
             THEN fseekend(putlong(fseekset(w.s, w.poscache), entrysize))
             ELSE w.s)

\* pcmseq2_write_data(fp, data, nsamples, lastsegment) on the handle h (a
\* record of the PCMFILE fields); data holds the caller's samples as bytes
pcmseq2_write_data(h, data, nsamples, lastsegment) ==
    WDReturn(h, WDLoop(WDEnter(h, data, nsamples, lastsegment), lastsegment, h.key,
                       h.entrysize + nsamples),
             nsamples, lastsegment)

pcmseq2_write_hdr_cursamp_0(h, clock) ==
    LET done(s) ==
            [h EXCEPT !.s = s,
                      !.key = MatchKey(InitKey(h.entry)),
                      !.cursamp = 0,
                      !.entrysize = 0,
                      !.rc = IF (s.rc # 0) \/ s.err THEN -1 ELSE 0]
    IN  done(write_hdr_stream([h.s EXCEPT !.rc = 0], h.entry, h.samplerate,
                              h.timestamp, h.microtimestamp, clock))

\* pcmseq2_write_hdr(fp)
pcmseq2_write_hdr(h, clock) ==
    LET done(s) ==
            [h EXCEPT !.s = s,
                      !.key = MatchKey(InitKey(h.entry)),
                      !.cursamp = SegmentSamples,
                      !.entrysize = 0,
                      !.rc = IF (s.rc # 0) \/ s.err THEN -1 ELSE 0]
    IN  done(write_hdr_stream([h.s EXCEPT !.rc = 0], h.entry, h.samplerate,
                              h.timestamp, h.microtimestamp, clock))

(***************************************************************************)
(* The samples the callers write: entry k of the file (in the order the    *)
(* entries are started) receives the stream SampleVal(k, 0), SampleVal(k,  *)
(* 1), ...; a write of n samples passes the next n of them.                *)
(***************************************************************************)
ChunkSizes == {0, 952, 2048}

SampleVal(k, j) ==
    IF (k = 2) /\ (j = 2022) THEN 3
    ELSE IF (k = 2) /\ (j = 2023) THEN 12832
    ELSE ((j * 37 + k * 5000) % 65536) - 32768

DataBytes ==
    [k \in 1..(MaxEntries + 1) |->
        [i \in 1..(2 * (MaxEntrySamples + 1)) |->
            Le16(SampleVal(k, (i - 1) \div 2))[1 + ((i - 1) % 2)]]]

\* the buffer of a write of n samples to entry k after off samples
Chunk(k, off, n) == SubSeq(DataBytes[k], 2 * off + 1, 2 * (off + n))

\* values an uninitialised pcmseq3_poscache may hold (PCMFILE is malloc'ed)
UninitPos == {-1, 40}

\* gettimeofday
WallClock == {<<1200000000, 250000>>}

VARIABLES
    mode,       \* "w": write handle open, "disk": no handle, "r": read handle open
    file,       \* the bytes of the file on disk
    fp,         \* the PCMFILE fields of the handle
    ret,        \* the last operation: its name, return value and what it met
    hist,       \* the entries started by the writer, with what was written to each
    nops,       \* operations made on the current entry or handle
    tamper,     \* what happened to the file between the writer and the reader
    p2,         \* the P2FILE of the read handle
    ix,         \* the locals of a running pcmseq2_indexfile
    out,        \* what the last read call returned
    mem,        \* the scratch memory and temporary files the process holds
    seen,       \* the directory the last open built from the file as it is now
    al,         \* the files, the arguments and the locals of sort_unit_episode
    ds,         \* a detect_spikes object, the stream sent to it and what it returned
    wd,         \* a write handle under pcmseq2_write_hdr and a running pcmseq2_write_data
    rows,       \* the entries on disk before the bytes of file, kept as a count
    sp          \* the arguments and the locals of a running spike_times

wvars == <<mode, file, fp, ret, hist, nops>>
rvars == <<tamper, p2, ix, out, mem, seen, al, ds, wd, rows, sp>>
vars == <<mode, file, fp, ret, hist, nops, tamper, p2, ix, out, mem, seen, al, ds, wd, rows, sp>>

NoFp == [entry |-> 0]
NoP2 == [lastentry |-> 0]
NoIx == [pc |-> "none"]
NoOut == [op |-> "none"]
\* no mapping (mmap), no heap block (malloc), no temporary file (mkstemp)
NoMem == [mmap |-> 0, malloc |-> 0, fd |-> 0]
NoSeen == [opened |-> FALSE, dir |-> <<>>]
NoAl == [pc |-> "none"]
NoDs == [pc |-> "none"]
NoWd == [pc |-> "none"]
NoSp == [pc |-> "none"]

\* the stream of the write handle, with the failure of this call
Stream(fail) == [f |-> file, pos |-> fp.pos, err |-> fp.err \/ fail, rc |-> 0]

\* the handle record the pcmseq2_write_* operators work on
WHandle(fail) ==
    [s |-> Stream(fail), entry |-> fp.entry, cursamp |-> fp.cursamp,
     entrysize |-> fp.entrysize, poscache |-> fp.poscache, key |-> fp.key,
     samplerate |-> fp.samplerate, timestamp |-> fp.timestamp,
     microtimestamp |-> fp.microtimestamp, rc |-> 0]

\* the PCMFILE fields after the pcmseq2_write_* calls left the record h
FromHandle(h, started) ==
    [fp EXCEPT !.pos = h.s.pos, !.err = h.s.err, !.cursamp = h.cursamp,
               !.entrysize = h.entrysize, !.poscache = h.poscache, !.key = h.key,
               !.entrystarted = started]

\* pcm_open(name, "w") -> pcmseq_open: fopen(name, "w") leaves an empty file
InitW ==
    /\ mode = "w"
    /\ file = <<>>
    /\ \E pc \in UninitPos :
         fp = [entry |-> 1, entrystarted |-> 0, samplerate |-> DefaultSampleRate,
               timestamp |-> 0, microtimestamp |-> 0, pos |-> 0, err |-> FALSE,
               cursamp |-> 0, entrysize |-> 0, poscache |-> pc, key |-> Zeros(KeyLen)]
    /\ ret = [op |-> "open", rc |-> 0, failed |-> FALSE, raised |-> FALSE]
    /\ hist = <<>>
    /\ nops = 0
    /\ tamper = "none"
    /\ p2 = NoP2
    /\ ix = NoIx
    /\ out = NoOut
    /\ mem = NoMem
    /\ seen = NoSeen
    /\ al = NoAl
    /\ ds = NoDs
    /\ wd = NoWd
    /\ rows = 0
    /\ sp = NoSp

\* pcmfile_write -> pcm_write -> pcmseq_write(fp, buf, nsamples)
pcmseq_write(n, fail, clock) ==
    /\ mode = "w"
    /\ nops < MaxWrites
    /\ fp.entrystarted = 0 => Len(hist) < MaxEntries
    /\ LET starting == fp.entrystarted = 0
           k == IF starting THEN Len(hist) + 1 ELSE Len(hist)
           off == IF starting THEN 0 ELSE hist[k].n
           rec == IF starting
                  THEN [n |-> 0, entry |-> fp.entry, hdrpos |-> fp.pos,
                        sr |-> fp.samplerate,
                        time |-> IF fp.timestamp = 0 THEN lltime(clock[1], clock[2])
                                 ELSE lltime(fp.timestamp, fp.microtimestamp),
                        closed |-> FALSE]
                  ELSE hist[k]
           \* the handle h1 after the header (when one is due), h2 at the return
           returned(h1, h2) ==
               LET wrote == IF h1.rc = 0 THEN n ELSE 0
               IN  /\ file' = h2.s.f
                   /\ fp' = FromHandle(h2, 1)
                   /\ ret' = [op |-> "write", rc |-> h2.rc,
                              failed |-> (h1.s.rc # 0) \/ (h2.s.rc # 0) \/ h2.s.err,
                              raised |-> FALSE]
                   /\ hist' = IF starting THEN Append(hist, [rec EXCEPT !.n = wrote])
                              ELSE [hist EXCEPT ![k].n = off + wrote]
           data(h1) ==
               returned(h1, IF h1.rc = 0
                            THEN pcmseq2_write_data(h1, Chunk(k, off, n), n, 0)
                            ELSE h1)
       IN  /\ off + n <= MaxEntrySamples
           /\ data(IF starting THEN pcmseq2_write_hdr(WHandle(fail), clock)
                   ELSE WHandle(fail))
           /\ nops' = nops + 1
           /\ UNCHANGED <<mode, rvars>>

pcmseq_seek_w_entry_left_started(e, fail) ==
    /\ mode = "w"
    /\ LET started == fp.entrystarted # 0
           returned(h) ==
               /\ file' = h.s.f
               /\ fp' = [FromHandle(h, fp.entrystarted) EXCEPT !.entry = e]
               /\ ret' = [op |-> "seek", rc |-> 0,
                          failed |-> started /\ ((h.s.rc # 0) \/ h.s.err),
                          raised |-> FALSE]
       IN  /\ returned(IF started THEN pcmseq2_write_data(WHandle(fail), <<>>, 0, 1)
                       ELSE WHandle(fail))
           /\ hist' = IF started THEN [hist EXCEPT ![Len(hist)].closed = TRUE] ELSE hist
           /\ nops' = 0
           /\ UNCHANGED <<mode, rvars>>

\* pcmfile_seek -> pcm_seek -> pcmseq_seek(fp, entry) on a write handle
pcmseq_seek_w(e, fail) ==
    /\ mode = "w"
    /\ LET started == fp.entrystarted # 0
           returned(h) ==
               /\ file' = h.s.f
               /\ fp' = [FromHandle(h, 0) EXCEPT !.entry = e]
               /\ ret' = [op |-> "seek", rc |-> 0,
                          failed |-> started /\ ((h.s.rc # 0) \/ h.s.err),
                          raised |-> FALSE]
       IN  /\ returned(IF started THEN pcmseq2_write_data(WHandle(fail), <<>>, 0, 1)
                       ELSE WHandle(fail))
           /\ hist' = IF started THEN [hist EXCEPT ![Len(hist)].closed = TRUE] ELSE hist
           /\ nops' = 0
           /\ UNCHANGED <<mode, rvars>>

\* pcm_close -> pcmseq_close(fp) on a write handle
pcmseq_close_w(fail) ==
    /\ mode = "w"
    /\ LET started == fp.entrystarted # 0
           returned(h) ==
               /\ file' = h.s.f
               /\ ret' = [op |-> "close", rc |-> 0,
                          failed |-> started /\ ((h.s.rc # 0) \/ h.s.err),
                          raised |-> FALSE]
       IN  /\ returned(IF started THEN pcmseq2_write_data(WHandle(fail), <<>>, 0, 1)
                       ELSE WHandle(fail))
           /\ fp' = NoFp
           /\ hist' = IF started THEN [hist EXCEPT ![Len(hist)].closed = TRUE] ELSE hist
           /\ nops' = 0
           /\ mode' = "disk"
           /\ UNCHANGED rvars

(***************************************************************************)
(* The stdio stream of a read handle over the bytes f: a position and the  *)
(* end-of-file indicator.                                                  *)
(***************************************************************************)
\* C integer division (truncation toward zero), b > 0
CDiv(a, b) == IF a >= 0 THEN a \div b ELSE -((-a) \div b)

\* the bytes f[pos .. pos+n-1] that exist
Avail(f, pos, n) ==
    IF pos >= Len(f) THEN <<>>
    ELSE SubSeq(f, pos + 1, IF pos + n <= Len(f) THEN pos + n ELSE Len(f))

\* fread(buf, n, 1, fp): ok iff all n bytes were read; a short read moves
\* the position by what was read and sets the end-of-file indicator
fread(f, r, n) ==
    LET read(got) ==
            [ok |-> Len(got) = n, bytes |-> got,
             r |-> [r EXCEPT !.pos = r.pos + Len(got), !.eof = (r.eof \/ (Len(got) < n))]]
    IN  read(Avail(f, r.pos, n))

\* fseek(fp, off, SEEK_CUR) and fseek(fp, pos, SEEK_SET): a negative target
\* fails and leaves the stream alone; success clears the end-of-file indicator
fseekcur(r, off) == IF r.pos + off < 0 THEN r ELSE [r EXCEPT !.pos = r.pos + off, !.eof = FALSE]
fseekto(r, pos) == IF pos < 0 THEN r ELSE [r EXCEPT !.pos = pos, !.eof = FALSE]

\* the record-size prefix of type 1 shifts every header by two bytes
HdrOff(type) == IF type = 1 THEN 2 ELSE 0
SegSizeOf(type) == IF type = 1 THEN 4140 ELSE SegmentSize
EntHdrSizeOf(type) == IF type = 1 THEN 56 ELSE EntryHdrSize

\* the validation of the 36 bytes read as a segment header
ValidSegHdr(rd, type) ==
    /\ rd.ok
    /\ LET b == rd.bytes
           o == HdrOff(type)
       IN  /\ b[o + 1] = 1 /\ b[o + 2] = 0 /\ b[o + 3] = 32 /\ b[o + 4] = 51
           /\ (type = 1) => (b[1] = 252 /\ b[2] = 7)

\* the validation of the 56 bytes read as an entry header
ValidEntHdr(rd, type) ==
    /\ rd.ok
    /\ LET b == rd.bytes
           o == HdrOff(type)
       IN  /\ b[o + 1] = 3 /\ b[o + 2] = 0 /\ b[o + 3] = 32 /\ b[o + 4] = 50
           /\ (type = 1) => (b[1] = 54 /\ b[2] = 0)

\* readentryhdr(p2fp): the stream afterwards, the status, and initkey (the
\* 28 bytes at buf + 4 of hdrbuf, which keeps what an earlier call left
\* where this one read nothing)
readentryhdr(f, r, type, hdrbuf) ==
    LET n == IF type = 1 THEN 56 ELSE 54
        at == IF type = 1 THEN 0 ELSE 2
        checked(rd, buf) ==
            [r |-> rd.r, hdrbuf |-> buf,
             rc |-> IF ~rd.ok THEN -1
                    ELSE IF buf[5] # 32 \/ buf[6] # 50 THEN -1 ELSE 0]
        read(rd) ==
            checked(rd, [i \in 1..56 |->
                            IF i > at /\ i <= at + Len(rd.bytes) THEN rd.bytes[i - at]
                            ELSE hdrbuf[i]])
    IN  read(fread(f, r, n))

\* one pass of the loop of pcmseq2_scantoentrystart from position prevpos
\* with stride step0: the position and the stride it leaves, the offset it
\* sought, and whether the loop is left
ScanPass(f, prevpos, step0, type) ==
    LET segsize == SegSizeOf(type)
        RECURSIVE Halve(_)
        Halve(st) == IF (st > 0) /\ (st * segsize > prevpos) THEN Halve(st \div 2) ELSE st
        step == Halve(step0)
        rd == fread(f, [pos |-> prevpos - step * segsize, eof |-> FALSE], SegHdrRead)
    IN  IF ~ValidSegHdr(rd, type)
        THEN [pos |-> prevpos, step |-> step \div 2, sought |-> prevpos - step * segsize,
              done |-> (step \div 2 = 0)]
        ELSE [pos |-> prevpos - step * segsize, step |-> step,
              sought |-> prevpos - step * segsize, done |-> (step = 0)]

\* pcmseq2_scantoentrystart: the loop from position prevpos with stride step
RECURSIVE ScanLoop(_, _, _, _)
ScanLoop(f, prevpos, step0, type) ==
    LET next(sc) == IF sc.done THEN sc.pos ELSE ScanLoop(f, sc.pos, sc.step, type)
    IN  next(ScanPass(f, prevpos, step0, type))

\* pcmseq2_scantoentrystart(fp, type, segmentsize, entryhdrsize) from position
\* pos: the status and the position it leaves
pcmseq2_scantoentrystart(f, pos, type) ==
    LET rd == fread(f, [pos |-> pos, eof |-> FALSE], SegHdrRead)
    IN  IF ~ValidSegHdr(rd, type) THEN [rc |-> -1, pos |-> rd.r.pos]
        ELSE LET p == ScanLoop(f, pos, 256, type)
             IN  [rc |-> 0, pos |-> fseekcur([pos |-> p, eof |-> FALSE], -EntHdrSizeOf(type)).pos]

\* the least element of a non-empty set of integers
Least(S) == CHOOSE i \in S : \A j \in S : i <= j

\* scantosegmentstart(p2fp): p2type is p2fp->type, which pcmseq2_indexfile
\* sets only when it has finished (0 in a handle fresh from calloc)
scantosegmentstart(f, r, p2type, hdrbuf) ==
    LET segsize == SegSizeOf(p2type)
        startpos == r.pos
        base == startpos - segsize
        \* the offsets in segbuf at which the 14 bytes of initkey + 2 are found
        searched(eh, rd, hits) ==
            IF hits # {}
            THEN [rc |-> 0,
                  r |-> fseekto(rd.r, base + Least(hits) - 2 - (IF p2type = 1 THEN 4 ELSE 2)),
                  hdrbuf |-> eh.hdrbuf]
            ELSE [rc |-> -1, r |-> fseekto(rd.r, startpos), hdrbuf |-> eh.hdrbuf]
        \* the segment before startpos was read into segbuf
        segment(eh, rd) ==
            LET initkey2 == SubSeq(eh.hdrbuf, 7, 20)
            IN  IF ~rd.ok
                THEN [rc |-> -1, r |-> fseekto(rd.r, startpos), hdrbuf |-> eh.hdrbuf]
                ELSE searched(eh, rd, {i \in 0..(segsize - 14) :
                                          \A j \in 1..14 : f[base + i + j] = initkey2[j]})
        \* the first entry header of the file was read for its key
        header(eh) ==
            IF eh.rc = -1
            THEN [rc |-> -1, r |-> fseekto(r, startpos), hdrbuf |-> eh.hdrbuf]
            ELSE segment(eh, fread(f, fseekto(eh.r, startpos - segsize), segsize))
    IN  IF startpos < segsize
        THEN [rc |-> -1, r |-> fseekto(r, startpos), hdrbuf |-> hdrbuf]
        ELSE header(readentryhdr(f, fseekto(r, 0), p2type, hdrbuf))

\* a cache array of P2FILE: the slots written so far; the others hold the
\* value pcmseq2_open stored in them
Slot(cache, i, init) == IF i \in DOMAIN cache THEN cache[i] ELSE init
Store(cache, i, v) == [j \in (DOMAIN cache) \cup {i} |-> IF j = i THEN v ELSE cache[j]]

\* srcache[curentry] from the four bytes of the header (int, two's complement)
SrOf(b, o) == Int32(SubSeq(b, o + 51, o + 54))

\* a probe that gives up after the first read
ProbeEntHdr_no_retry(f, e1, type) == e1

\* the 56 bytes e1 read where the entry header should be, or, when they are
\* not an entry header, the 56 bytes one segment before them
ProbeEntHdr(f, e1, type) ==
    IF ValidEntHdr(e1, type) THEN e1
    ELSE fread(f, fseekcur(e1.r, -SegSizeOf(type) - EntHdrRead), EntHdrRead)

\* one pass of the for (;;) loop of pcmseq2_indexfile; x holds the locals
\* (the stream r, type, curentry) and the four caches
IndexBody(f, x) ==
    LET type == x.type
        o == HdrOff(type)
        segsize == SegSizeOf(type)
        hdrsize == EntHdrSizeOf(type)
        c == x.curentry
        \* the entry header eh of an entry of recordwords samples is cached
        cached(eh, recordwords) ==
            LET epos == eh.r.pos - EntHdrRead
            IN  IF ~ValidEntHdr(eh, type)
                THEN [x EXCEPT !.pc = "fail", !.r = eh.r]
                ELSE [x EXCEPT
                        !.poscache = Store(x.poscache, c, epos),
                        !.sizecache = Store(x.sizecache, c, recordwords),
                        !.srcache = Store(x.srcache, c, SrOf(eh.bytes, o)),
                        !.timecache = Store(x.timecache, c, SubSeq(eh.bytes, o + 31, o + 38)),
                        !.pc = IF epos = 0 THEN "reverse" ELSE "loop",
                        !.curentry = IF epos = 0 THEN c ELSE c + 1,
                        !.r = IF epos = 0 THEN eh.r ELSE fseekcur(eh.r, -segsize - EntHdrRead)]
        \* the read e1 where the entry header should be; one segment further
        \* back when it is not there
        probed(e1, recordwords) == cached(ProbeEntHdr(f, e1, type), recordwords)
        \* no sample count in the segment at tmppos: es is the scan for the
        \* start of its entry
        scanned(sh, tmppos, es) ==
            IF es.rc = -1
            THEN [x EXCEPT !.pc = "fail", !.r = [sh.r EXCEPT !.pos = es.pos]]
            ELSE probed(fread(f, [sh.r EXCEPT !.pos = es.pos, !.eof = FALSE], EntHdrRead),
                        CDiv(tmppos + segsize - es.pos - hdrsize, segsize) * SegmentSamples)
        \* a segment header sh whose sample count is rw0
        counted(sh, rw0) ==
            LET tmppos == sh.r.pos - SegHdrRead
                entrysegments == CDiv(rw0 + SegmentSamples - 1, SegmentSamples)
            IN  IF (rw0 = -1) \/ (rw0 = 0)
                THEN scanned(sh, tmppos, pcmseq2_scantoentrystart(f, tmppos, type))
                ELSE probed(fread(f, fseekcur(sh.r, segsize - SegHdrRead
                                                      - entrysegments * segsize - hdrsize),
                                  EntHdrRead),
                            rw0)
        \* no segment header at the end of the file: sc is the search for one
        recovered(sh, sc) ==
            IF (c = 1) /\ (sc.rc = 0)
            THEN [x EXCEPT !.r = sc.r, !.hdrbuf = sc.hdrbuf]
            ELSE [x EXCEPT !.pc = "fail", !.r = IF c = 1 THEN sc.r ELSE sh.r]
        \* the 36 bytes read where a segment header is expected
        header(sh) ==
            IF ~ValidSegHdr(sh, type)
            THEN recovered(sh, scantosegmentstart(f, sh.r, x.p2type, x.hdrbuf))
            ELSE counted(sh, Int32(SubSeq(sh.bytes, o + 31, o + 34)))
    IN  header(fread(f, x.r, SegHdrRead))

\* the reversal of the cached entries 1..n into forward order
ReverseNot(cache, n) == [i \in 1..n |-> cache[i]]

Reverse(cache, n) == [i \in 1..n |-> cache[n + 1 - i]]

(***************************************************************************)
(* pcmseq2_seektoentry, pcmseq2_getinfo and pcmseq2_read on the P2FILE p   *)
(***************************************************************************)
pcmseq2_seektoentry(p, entry) ==
    IF (entry <= 0) \/ ((p.lastentry # -1) /\ (entry > p.lastentry))
    THEN [rc |-> -1, p |-> p]
    ELSE IF Slot(p.poscache, entry, -1) # -1
    THEN [rc |-> 0, p |-> [p EXCEPT !.r = fseekto(p.r, p.poscache[entry]),
                                    !.currententry = entry]]
    ELSE [rc |-> -1, p |-> p]

\* a lookup that takes the size from the slot before the entry's
pcmseq2_getinfo_slot_before(p, entry) ==
    IF (entry <= 0) \/ ((p.lastentry # -1) /\ (entry > p.lastentry))
       \/ (Slot(p.sizecache, entry, -1) = -1)
    THEN [rc |-> -1, p |-> p,
          entrysize |-> 0, samplerate |-> 0, datetime |-> Zeros(8), nentries |-> 0]
    ELSE [rc |-> 0, p |-> p,
          entrysize |-> Slot(p.sizecache, entry - 1, -1),
          samplerate |-> IF Slot(p.srcache, entry, 0) # -1 THEN Slot(p.srcache, entry, 0) ELSE 0,
          datetime |-> IF Slot(p.timecache, entry, Zeros(8)) # [i \in 1..8 |-> 255]
                       THEN Slot(p.timecache, entry, Zeros(8)) ELSE Zeros(8),
          nentries |-> IF p.lastentry # -1 THEN p.lastentry ELSE 0]

pcmseq2_getinfo(p, entry) ==
    IF (entry <= 0) \/ ((p.lastentry # -1) /\ (entry > p.lastentry))
       \/ (Slot(p.sizecache, entry, -1) = -1)
    THEN [rc |-> -1, p |-> p,
          entrysize |-> 0, samplerate |-> 0, datetime |-> Zeros(8), nentries |-> 0]
    ELSE [rc |-> 0, p |-> p,
          entrysize |-> p.sizecache[entry],
          samplerate |-> IF Slot(p.srcache, entry, 0) # -1 THEN Slot(p.srcache, entry, 0) ELSE 0,
          datetime |-> IF Slot(p.timecache, entry, Zeros(8)) # [i \in 1..8 |-> 255]
                       THEN Slot(p.timecache, entry, Zeros(8)) ELSE Zeros(8),
          nentries |-> IF p.lastentry # -1 THEN p.lastentry ELSE 0]

\* peekcontrolword(p2fp): fread never returns -1, so the call always
\* succeeds; the word comes from a zeroed buffer filled with what was read
peekcontrolword(f, r, type) ==
    LET n == IF type = 1 THEN 4 ELSE 2
        peeked(rd, b) ==
            [word |-> b[n - 1] + 256 * b[n], r |-> fseekcur(rd.r, -n), full |-> rd.ok]
        read(rd) == peeked(rd, rd.bytes \o Zeros(n - Len(rd.bytes)))
    IN  read(fread(f, r, n))

\* readsegment(p2fp): status, stream, and the fields of p2seg it sets
readsegment(f, r, type, hdrbuf) ==
    LET segsize == SegSizeOf(type)
        o == HdrOff(type)
        read(rd, b) ==
            IF ~rd.ok THEN [rc |-> -1, r |-> rd.r, short |-> TRUE]
            ELSE IF (b[o + 3] # 32) \/ (b[o + 4] # 51)
                    \/ (SubSeq(hdrbuf, 7, 22) # SubSeq(b, o + 5, o + 20))
            THEN [rc |-> -1, r |-> rd.r, short |-> FALSE]
            ELSE [rc |-> 0, r |-> rd.r, short |-> FALSE,
                  recordwords |-> Int32(SubSeq(b, o + 31, o + 34)),
                  samples1 |-> SubSeq(b, o + 35, o + 34 + 2 * Block1),
                  samples2 |-> SubSeq(b, 2 * o + 2047, 2 * o + 2046 + 2 * (Block12 - Block1)),
                  samples3 |-> SubSeq(b, 3 * o + 4091,
                                      3 * o + 4090 + 2 * (SegmentSamples - Block12))]
        segment(rd) == read(rd, rd.bytes)
    IN  segment(fread(f, r, segsize))

CopyBlockToBlockEnd(samples, blockstart, size, start, stop) ==
    LET blockstop == blockstart + size - 1
        startpad == IF start > blockstart THEN start - blockstart ELSE 0
    IN  IF (blockstart <= stop) /\ (blockstop >= start)
        THEN SubSeq(samples, 2 * startpad + 1, 2 * size)
        ELSE <<>>

\* the part of one sub-block that pcmseq2_read copies to buf + curpos
CopyBlock(samples, blockstart, size, start, stop) ==
    LET blockstop == blockstart + size - 1
        startpad == IF start > blockstart THEN start - blockstart ELSE 0
        endpad == IF stop < blockstop THEN blockstop - stop ELSE 0
    IN  IF (blockstart <= stop) /\ (blockstop >= start)
        THEN SubSeq(samples, 2 * startpad + 1, 2 * (size - endpad))
        ELSE <<>>

\* the loop with the position of the next entry stored before the entry
\* counter is advanced
RECURSIVE ReadLoopStoreFirst(_, _, _, _, _)
ReadLoopStoreFirst(f, st, type, start, stop) ==
    LET blockstart == st.blockstart
        \* a segment that overlaps the range was read
        overlapping(sg) ==
            IF sg.rc = -1
            THEN [st EXCEPT !.r = sg.r, !.why = IF sg.short THEN "short" ELSE "segkey"]
            ELSE ReadLoopStoreFirst(f,
                   [st EXCEPT !.r = sg.r, !.p2rw = sg.recordwords,
                              !.blockstart = blockstart + SegmentSamples,
                              !.buf = st.buf
                                  \o CopyBlock(sg.samples1, blockstart, Block1, start, stop)
                                  \o CopyBlock(sg.samples2, blockstart + Block1,
                                               Block12 - Block1, start, stop)
                                  \o CopyBlock(sg.samples3, blockstart + Block12,
                                               SegmentSamples - Block12, start, stop)],
                   type, start, stop)
        \* the switch on the control word
        control(pk) ==
            IF pk.word = 3
            THEN [st EXCEPT !.r = pk.r, !.curentry = st.curentry + 1,
                            !.poscache = Store(st.poscache, st.curentry, pk.r.pos),
                            !.status = 0, !.recordwords = st.p2rw, !.why = "entry"]
            ELSE IF pk.word = 1
            THEN IF (blockstart > stop) \/ (blockstart + SegmentSamples - 1 < start)
                 THEN ReadLoopStoreFirst(f, [st EXCEPT !.r = fseekcur(pk.r, SegSizeOf(type)),
                                             !.blockstart = blockstart + SegmentSamples],
                               type, start, stop)
                 ELSE overlapping(readsegment(f, pk.r, type, st.hdrbuf))
            ELSE [st EXCEPT !.r = pk.r, !.why = IF pk.full THEN "ctlword" ELSE "eof"]
    IN  control(peekcontrolword(f, st.r, type))

\* the for (;;) loop of pcmseq2_read; st holds the locals of the call
RECURSIVE ReadLoop(_, _, _, _, _)
ReadLoop(f, st, type, start, stop) ==
    LET blockstart == st.blockstart
        \* a segment that overlaps the range was read
        overlapping(sg) ==
            IF sg.rc = -1
            THEN [st EXCEPT !.r = sg.r, !.why = IF sg.short THEN "short" ELSE "segkey"]
            ELSE ReadLoop(f,
                   [st EXCEPT !.r = sg.r, !.p2rw = sg.recordwords,
                              !.blockstart = blockstart + SegmentSamples,
                              !.buf = st.buf
                                  \o CopyBlock(sg.samples1, blockstart, Block1, start, stop)
                                  \o CopyBlock(sg.samples2, blockstart + Block1,
                                               Block12 - Block1, start, stop)
                                  \o CopyBlock(sg.samples3, blockstart + Block12,
                                               SegmentSamples - Block12, start, stop)],
                   type, start, stop)
        \* the switch on the control word
        control(pk) ==
            IF pk.word = 3
            THEN [st EXCEPT !.r = pk.r, !.curentry = st.curentry + 1,
                            !.poscache = Store(st.poscache, st.curentry + 1, pk.r.pos),
                            !.status = 0, !.recordwords = st.p2rw, !.why = "entry"]
            ELSE IF pk.word = 1
            THEN IF (blockstart > stop) \/ (blockstart + SegmentSamples - 1 < start)
                 THEN ReadLoop(f, [st EXCEPT !.r = fseekcur(pk.r, SegSizeOf(type)),
                                             !.blockstart = blockstart + SegmentSamples],
                               type, start, stop)
                 ELSE overlapping(readsegment(f, pk.r, type, st.hdrbuf))
            ELSE [st EXCEPT !.r = pk.r, !.why = IF pk.full THEN "ctlword" ELSE "eof"]
    IN  control(peekcontrolword(f, st.r, type))

\* pcmseq2_read(p2fp, entry, start, stop, buf, &numwritten, &entrysize): the
\* status, the P2FILE afterwards, and the bytes copied to buf
pcmseq2_read(f, p, entry, start, stop) ==
    LET \* the loop over the segments has left st
        looped(p1, startpos, st, after) ==
            LET rescue == st.r.eof \/ ((entry = p1.lastentry) /\ (st.blockstart > stop))
                          \/ ((st.p2rw # 0) /\ (st.status = -1))
            IN  IF rescue
                THEN [rc |-> 0,
                      p |-> [after EXCEPT !.r = fseekto(st.r, startpos), !.currententry = entry],
                      buf |-> st.buf, numwritten |-> Len(st.buf) \div 2,
                      entrysize |-> st.p2rw, why |-> st.why]
                ELSE IF st.status = -1
                THEN [rc |-> -1, p |-> [after EXCEPT !.r = fseekto(st.r, startpos)],
                      buf |-> st.buf, numwritten |-> 0, entrysize |-> 0, why |-> st.why]
                ELSE [rc |-> 0, p |-> [after EXCEPT !.r = st.r, !.currententry = st.curentry],
                      buf |-> st.buf, numwritten |-> Len(st.buf) \div 2,
                      entrysize |-> st.recordwords, why |-> st.why]
        segments(p1, startpos, eh, st) ==
            looped(p1, startpos, st,
                   [p1 EXCEPT !.hdrbuf = eh.hdrbuf, !.recordwords = st.p2rw,
                              !.poscache = st.poscache])
        \* the entry header was read at startpos
        header(p1, startpos, eh) ==
            IF eh.rc = -1
            THEN [rc |-> -1,
                  p |-> [p1 EXCEPT !.r = fseekto(eh.r, startpos), !.hdrbuf = eh.hdrbuf],
                  buf |-> <<>>, numwritten |-> 0, entrysize |-> 0, why |-> "enthdr"]
            ELSE segments(p1, startpos, eh,
                          ReadLoop(f,
                                   [r |-> eh.r, hdrbuf |-> eh.hdrbuf, blockstart |-> 0,
                                    buf |-> <<>>, status |-> -1, curentry |-> p1.currententry,
                                    recordwords |-> 0, why |-> "", p2rw |-> p1.recordwords,
                                    poscache |-> p1.poscache],
                                   p1.type, start, stop))
        positioned(p1) == header(p1, p1.r.pos, readentryhdr(f, p1.r, p1.type, p1.hdrbuf))
        seeked(sk) ==
            IF sk.rc = -1
            THEN [rc |-> -1, p |-> p, buf |-> <<>>, numwritten |-> 0, entrysize |-> 0,
                  why |-> "range"]
            ELSE positioned(sk.p)
    IN  seeked(pcmseq2_seektoentry(p, entry))

(***************************************************************************)
(* Opening for reading: pcm_open(name, "r") -> pcmseq_open ->              *)
(* pcmseq2_open -> pcmseq2_indexfile, one action per pass of its loop      *)
(***************************************************************************)
\* the handle after entry k is written to an empty stream with one write of
\* 952 samples (the first 952 samples of DataBytes[1]) and closed
WrittenEntry(k) ==
    LET clock == CHOOSE c \in WallClock : TRUE
        h0 == [s |-> [f |-> <<>>, pos |-> 0, err |-> FALSE, rc |-> 0],
               entry |-> k, cursamp |-> 0, entrysize |-> 0, poscache |-> -1,
               key |-> Zeros(KeyLen), samplerate |-> DefaultSampleRate,
               timestamp |-> 0, microtimestamp |-> 0, rc |-> 0]
        h1 == pcmseq2_write_hdr(h0, clock)
        h2 == pcmseq2_write_data(h1, Chunk(1, 0, 952), 952, 0)
    IN  pcmseq2_write_data(h2, <<>>, 0, 1)

\* the bytes of the entries lo..hi one after another: the writer stores no
\* file offset in an entry, so entry k has the same bytes wherever it lies
RECURSIVE EntriesInARow(_, _)
EntriesInARow(lo, hi) ==
    IF lo = hi THEN WrittenEntry(lo).s.f
    ELSE EntriesInARow(lo, (lo + hi) \div 2) \o EntriesInARow(((lo + hi) \div 2) + 1, hi)

\* the bytes on disk: the rows entries of one segment each, then file
Disk == IF rows = 0 THEN file ELSE EntriesInARow(1, rows) \o file

\* the byte fread leaves in tmpchr; nothing is read from an empty file and
\* tmpchr keeps whatever the stack held
UninitByte == {0, 3}

\* the head of pcmseq2_indexfile: the type from byte 0, then the seek to the
\* last segment
pcmseq_open_r ==
    /\ mode = "disk"
    /\ \E tmpchr \in (IF Len(Disk) > 0 THEN {Disk[1]} ELSE UninitByte) :
         LET type == IF tmpchr = 54 THEN 1 ELSE IF tmpchr = 3 THEN 2 ELSE 0
             r1 == fread(Disk, [pos |-> 0, eof |-> FALSE], 1).r
         IN  IF type = 0
             THEN /\ ret' = [op |-> "open", rc |-> -1, failed |-> FALSE, raised |-> TRUE]
                  /\ UNCHANGED <<mode, ix>>
             ELSE /\ mode' = "index"
                  /\ ix' = [pc |-> "loop", type |-> type, p2type |-> 0, curentry |-> 1,
                            r |-> fseekto(r1, Len(Disk) - SegSizeOf(type)),
                            hdrbuf |-> Zeros(EntHdrRead),
                            poscache |-> <<>>, sizecache |-> <<>>,
                            srcache |-> <<>>, timecache |-> <<>>]
                  /\ ret' = [op |-> "indexing", rc |-> 0, failed |-> FALSE, raised |-> FALSE]
    /\ UNCHANGED <<file, fp, hist, nops, tamper, p2, out, mem, seen, al, ds, wd, rows, sp>>

\* one pass of the loop
IndexStep ==
    /\ mode = "index"
    /\ ix.pc = "loop"
    /\ ix' = IndexBody(Disk, ix)
    /\ ret' = [ret EXCEPT !.op = "indexing"]
    /\ UNCHANGED <<mode, file, fp, hist, nops, tamper, p2, out, mem, seen, al, ds, wd, rows, sp>>

\* pcmseq2_indexfile returned -1: pcmseq2_open frees the handle, pcm_open
\* returns NULL
IndexFail ==
    /\ mode = "index"
    /\ ix.pc = "fail"
    /\ mode' = "disk"
    /\ ix' = NoIx
    /\ ret' = [op |-> "open", rc |-> -1, failed |-> FALSE, raised |-> TRUE]
    /\ UNCHANGED <<file, fp, hist, nops, tamper, p2, out, mem, seen, al, ds, wd, rows, sp>>

\* the directory of the P2FILE p: what the four caches hold for each of the
\* entries 1..lastentry
Directory(p) ==
    [e \in 1..p.lastentry |->
        [pos |-> Slot(p.poscache, e, -1), size |-> Slot(p.sizecache, e, -1),
         sr |-> Slot(p.srcache, e, 0), time |-> Slot(p.timecache, e, Zeros(8))]]

\* an end of indexing that adds the entries to a count left by the calls on
\* the handle before
IndexDone_count_kept ==
    /\ mode = "index"
    /\ ix.pc = "reverse"
    /\ LET n == ix.curentry
           p == [r |-> [pos |-> 0, eof |-> FALSE],
                 currententry |-> 1, lastentry |-> n + nops, type |-> ix.type,
                 poscache |-> Reverse(ix.poscache, n),
                 sizecache |-> Reverse(ix.sizecache, n),
                 srcache |-> Reverse(ix.srcache, n),
                 timecache |-> Reverse(ix.timecache, n),
                 recordwords |-> 0, hdrbuf |-> ix.hdrbuf]
           gi == pcmseq2_getinfo(p, 1)
       IN  /\ p2' = p
           /\ seen' = [opened |-> TRUE, dir |-> Directory(p)]
           /\ fp' = [entry |-> 1, nentries |-> gi.nentries, samplerate |-> gi.samplerate,
                     memalloctype |-> PCMIOMMAP, addr |-> "null", tempnam |-> FALSE]
    /\ mode' = "r"
    /\ ix' = NoIx
    /\ nops' = 0
    /\ ret' = [op |-> "open", rc |-> 0, failed |-> FALSE, raised |-> FALSE]
    /\ UNCHANGED <<file, hist, tamper, out, mem, al, ds, wd, rows, sp>>

\* the loop ended: the entries are put in forward order, pcmseq2_open rewinds
\* the stream and pcmseq_open asks pcmseq2_getinfo for entry 1
IndexDone ==
    /\ mode = "index"
    /\ ix.pc = "reverse"
    /\ LET n == ix.curentry
           p == [r |-> [pos |-> 0, eof |-> FALSE],
                 currententry |-> 1, lastentry |-> n, type |-> ix.type,
                 poscache |-> Reverse(ix.poscache, n),
                 sizecache |-> Reverse(ix.sizecache, n),
                 srcache |-> Reverse(ix.srcache, n),
                 timecache |-> Reverse(ix.timecache, n),
                 recordwords |-> 0, hdrbuf |-> ix.hdrbuf]
           gi == pcmseq2_getinfo(p, 1)
       IN  /\ p2' = p
           /\ seen' = [opened |-> TRUE, dir |-> Directory(p)]
           /\ fp' = [entry |-> 1, nentries |-> gi.nentries, samplerate |-> gi.samplerate,
                     memalloctype |-> PCMIOMMAP, addr |-> "null", tempnam |-> FALSE]
    /\ mode' = "r"
    /\ ix' = NoIx
    /\ nops' = 0
    /\ ret' = [op |-> "open", rc |-> 0, failed |-> FALSE, raised |-> FALSE]
    /\ UNCHANGED <<file, hist, tamper, out, mem, al, ds, wd, rows, sp>>

(***************************************************************************)
(* Operations on a read handle                                             *)
(***************************************************************************)
pcmseq_seek_r_from_zero(e) ==
    /\ mode = "r"
    /\ IF (e >= 0) /\ (e <= fp.nentries)
       THEN /\ fp' = [fp EXCEPT !.entry = e]
            /\ ret' = [op |-> "seek", rc |-> 0, failed |-> FALSE, raised |-> FALSE, arg |-> e]
       ELSE /\ fp' = fp
            /\ ret' = [op |-> "seek", rc |-> -1, failed |-> FALSE, raised |-> TRUE, arg |-> e]
    /\ UNCHANGED <<mode, file, hist, nops, tamper, p2, ix, out, mem, seen, al, ds, wd, rows, sp>>

\* pcmseq_seek(fp, entry) on a read handle
pcmseq_seek_r(e) ==
    /\ mode = "r"
    /\ IF (e > 0) /\ (e <= fp.nentries)
       THEN /\ fp' = [fp EXCEPT !.entry = e]
            /\ ret' = [op |-> "seek", rc |-> 0, failed |-> FALSE, raised |-> FALSE, arg |-> e]
       ELSE /\ fp' = fp
            /\ ret' = [op |-> "seek", rc |-> -1, failed |-> FALSE, raised |-> TRUE, arg |-> e]
    /\ UNCHANGED <<mode, file, hist, nops, tamper, p2, ix, out, mem, seen, al, ds, wd, rows, sp>>

\* a release that releases nothing
ReleaseAddrNot(h, m) == m

\* munmap(fp->addr, fp->len) or free(fp->addr), as fp->memalloctype says;
\* addr is "null" or names how the block it points to was obtained
ReleaseAddr(h, m) ==
    IF h.addr = "null" THEN m
    ELSE IF (h.memalloctype = PCMIOMMAP) /\ (h.addr = "mmap") THEN [m EXCEPT !.mmap = @ - 1]
    ELSE IF (h.memalloctype = PCMIOMALLOC) /\ (h.addr = "malloc") THEN [m EXCEPT !.malloc = @ - 1]
    ELSE m

\* pcmseq_read(fp, &buf, &nsamples): the whole current entry; tmpok and
\* allocok say whether mkstemp and mmap/malloc succeed in this call
pcmseq_read(cap, tmpok, allocok) ==
    /\ mode = "r"
    /\ nops < cap
    /\ LET \* Clean up from previous calls
           h0 == [fp EXCEPT !.addr = "null"]
           m0 == ReleaseAddr(fp, mem)
           failed(h, m, p, why) ==
               /\ fp' = h
               /\ mem' = m
               /\ p2' = p
               /\ out' = [op |-> "read", rc |-> -1, entry |-> fp.entry, buf |-> <<>>,
                          nsamples |-> 0, why |-> why]
           \* the entry was read into the block addr of len bytes
           read(h, m, addr, len, rd) ==
               LET bad == (rd.rc # 0)
                          \/ ((rd.numwritten # rd.entrysize) /\ (rd.numwritten # (len \div 2)))
               IN  IF bad
                   THEN failed(h, [m EXCEPT ![addr] = @ - 1], rd.p, rd.why)
                   ELSE /\ fp' = [h EXCEPT !.addr = addr]
                        /\ mem' = m
                        /\ p2' = rd.p
                        /\ out' = [op |-> "read", rc |-> 0, entry |-> fp.entry,
                                   buf |-> SubSeq(rd.buf \o Zeros(len), 1, len),
                                   nsamples |-> len \div 2, why |-> rd.why]
           \* the temporary file (made by the first read that maps) and the block
           sized(h, len) ==
               LET map == h.memalloctype = PCMIOMMAP
                   mktemp == map /\ ~h.tempnam
                   h1 == IF mktemp /\ tmpok THEN [h EXCEPT !.tempnam = TRUE] ELSE h
                   m1 == IF mktemp /\ tmpok THEN [m0 EXCEPT !.fd = @ + 1] ELSE m0
                   addr == IF map THEN "mmap" ELSE "malloc"
               IN  IF mktemp /\ ~tmpok THEN failed(h, m0, p2, "mkstemp")
                   ELSE IF map /\ ((len <= 0) \/ ~allocok) THEN failed(h1, m1, p2, "mmap")
                   ELSE IF ~map /\ (h.memalloctype # PCMIOMALLOC) THEN failed(h, m0, p2, "type")
                   ELSE IF ~map /\ ((len < 0) \/ ~allocok) THEN failed(h, m0, p2, "malloc")
                   ELSE read(h1, [m1 EXCEPT ![addr] = @ + 1], addr, len,
                             pcmseq2_read(file, p2, fp.entry, 0, (len \div 2) - 1))
           info(gi) ==
               IF gi.rc # 0 THEN failed(h0, m0, p2, "info")
               ELSE sized([h0 EXCEPT !.samplerate = gi.samplerate], gi.entrysize * 2)
       IN  info(pcmseq2_getinfo(p2, fp.entry))
    /\ ret' = [op |-> "read", rc |-> out'.rc, failed |-> FALSE, raised |-> out'.rc # 0]
    /\ nops' = nops + 1
    /\ UNCHANGED <<mode, file, hist, tamper, ix, seen, al, ds, wd, rows, sp>>

\* pcmseq_stat(fp, &buf) on a read handle h over the P2FILE p; on failure
\* buf is left as the caller had it
pcmseq_stat(h, p) ==
    LET stat(gi, ticks) ==
            IF gi.rc # 0 THEN [rc |-> -1, errno |-> "EIO"]
            ELSE [rc |-> 0, entry |-> h.entry, nentries |-> gi.nentries,
                  nsamples |-> gi.entrysize, samplerate |-> gi.samplerate,
                  \* unsigned long long arithmetic, stored in an int
                  timestamp |-> Int32(SubSeq(U64Add(U64Div(ticks, 10000000), U64(18000)), 1, 4)),
                  microtimestamp |-> U64Mod(ticks, 10000000) \div 10]
        info(gi) == stat(gi, U64Sub(gi.datetime, EpochBytes))
    IN  info(pcmseq2_getinfo(p, h.entry))

\* what an automatic struct pcmstat that was never filled in may hold
Uninitialized == {-1, 0}

pcmseq_stat_r ==
    /\ mode = "r"
    /\ LET stat(st) ==
               /\ out' = [op |-> "stat", rc |-> st.rc, entry |-> fp.entry, buf |-> st]
               /\ ret' = [op |-> "stat", rc |-> st.rc, failed |-> FALSE, raised |-> st.rc # 0]
       IN  stat(pcmseq_stat(fp, p2))
    /\ UNCHANGED <<mode, file, fp, hist, nops, tamper, p2, ix, mem, seen, al, ds, wd, rows, sp>>

\* the requests made of a read handle (arg is never NULL)
Requests == {PCMIOMMAP, PCMIOMALLOC, PCMIOSETSR, PCMIOGETSIZE, PCMIOGETSR, PCMIOGETENTRY,
             PCMIOGETTIME, PCMIOGETTIMEFRACTION, PCMIOGETNENTRIES}

\* a request that sets the allocation strategy whatever the handle holds
MayChangeAlloc_held(h, request) == request \in {PCMIOMALLOC, PCMIOMMAP}

\* Only allow a change if we haven't already read the file
MayChangeAlloc(h, request) == (h.addr = "null") /\ (request \in {PCMIOMALLOC, PCMIOMMAP})

\* pcm_ctl(fp, request, arg) on a read handle; the return value of
\* pcmseq_stat is not looked at, so after a failed stat *arg is garbage
pcmseq_ctl_r(request) ==
    /\ mode = "r"
    /\ LET done(h, rc, args) ==
               /\ fp' = h
               /\ \E arg \in args :
                    out' = [op |-> "ctl", rc |-> rc, entry |-> fp.entry, request |-> request,
                            arg |-> arg]
               /\ ret' = [op |-> "ctl", rc |-> rc, failed |-> FALSE, raised |-> rc # 0]
           field(st, name) == IF st.rc = 0 THEN {st[name]} ELSE Uninitialized
           ctl(st) ==
               IF MayChangeAlloc(fp, request)
               THEN done([fp EXCEPT !.memalloctype = request], 0, {0})
               ELSE IF request = PCMIOGETSIZE THEN done(fp, 0, field(st, "nsamples"))
               ELSE IF request = PCMIOGETSR THEN done(fp, 0, field(st, "samplerate"))
               ELSE IF request = PCMIOGETENTRY THEN done(fp, 0, {fp.entry})
               ELSE IF request = PCMIOGETNENTRIES THEN done(fp, 0, {fp.nentries})
               ELSE IF request = PCMIOGETTIME THEN done(fp, 0, field(st, "timestamp"))
               ELSE IF request = PCMIOGETTIMEFRACTION
               THEN done(fp, 0, field(st, "microtimestamp"))
               ELSE done(fp, -1, {0})
       IN  ctl(pcmseq_stat(fp, p2))
    /\ UNCHANGED <<mode, file, hist, nops, tamper, p2, ix, mem, seen, al, ds, wd, rows, sp>>

\* a direct call pcmseq2_getinfo(p2fp, entry, &entrysize, &samplerate,
\* &datetime, &nentries) on the P2FILE of the handle
GetInfo(entry) ==
    /\ mode = "r"
    /\ LET info(gi) ==
               /\ p2' = gi.p
               /\ out' = [op |-> "info", rc |-> gi.rc, entry |-> entry, p2 |-> gi.p,
                          entrysize |-> gi.entrysize, samplerate |-> gi.samplerate,
                          datetime |-> gi.datetime, nentries |-> gi.nentries, before |-> p2]
               /\ ret' = [op |-> "info", rc |-> gi.rc, failed |-> FALSE, raised |-> gi.rc # 0]
       IN  info(pcmseq2_getinfo(p2, entry))
    /\ UNCHANGED <<mode, file, fp, hist, nops, tamper, ix, mem, seen, al, ds, wd, rows, sp>>

\* the sample ranges asked of an entry of n samples
Ranges(n) ==
    {rg \in {<<0, n - 1>>, <<1000, 2500>>, <<1004, 1005>>, <<2026, 2048>>, <<952, 2047>>} :
        (rg[1] <= rg[2]) /\ (rg[2] < n)}

\* pcmseq2_read(p2fp, entry, start, stop, buf, &numwritten, &entrysize) with
\* a caller's buffer of stop - start + 1 samples
ReadRange(cap, e, start, stop) ==
    /\ mode = "r"
    /\ nops < cap
    /\ LET read(rd) ==
               /\ p2' = rd.p
               /\ out' = [op |-> "range", rc |-> rd.rc, entry |-> e, start |-> start,
                          stop |-> stop, buf |-> rd.buf, numwritten |-> rd.numwritten,
                          entrysize |-> rd.entrysize, why |-> rd.why,
                          prepos |-> p2.r.pos, preentry |-> p2.currententry]
               /\ ret' = [op |-> "range", rc |-> rd.rc, failed |-> FALSE, raised |-> rd.rc # 0]
       IN  read(pcmseq2_read(file, p2, e, start, stop))
    /\ nops' = nops + 1
    /\ UNCHANGED <<mode, file, fp, hist, tamper, ix, mem, seen, al, ds, wd, rows, sp>>

\* pcm_close on a read handle
pcmseq_close_r ==
    /\ mode = "r"
    /\ mode' = "disk"
    /\ mem' = [ReleaseAddr(fp, mem) EXCEPT !.fd = IF fp.tempnam THEN @ - 1 ELSE @]
    /\ fp' = NoFp
    /\ p2' = NoP2
    /\ out' = NoOut
    /\ ret' = [op |-> "close", rc |-> 0, failed |-> FALSE, raised |-> FALSE]
    /\ UNCHANGED <<file, hist, nops, tamper, ix, seen, al, ds, wd, rows, sp>>

(***************************************************************************)
(* What can happen to the file between the writer and a reader             *)
(***************************************************************************)
\* the lengths a crash or a power loss cuts off the end of the file
TruncBy == {10, 50, 1000}

Truncate(by) ==
    /\ mode = "disk"
    /\ tamper = "none"
    /\ Len(file) > by
    /\ file' = SubSeq(file, 1, Len(file) - by)
    /\ tamper' = "truncated"
    /\ seen' = NoSeen
    /\ UNCHANGED <<mode, fp, ret, hist, nops, p2, ix, out, mem, al, ds, wd, rows, sp>>

\* damage to one byte of the first segment of the last entry: a character of
\* its match key, or its control word
CorruptAt == {8, 0}

Corrupt(off) ==
    /\ mode = "disk"
    /\ tamper = "none"
    /\ hist # <<>>
    /\ LET at == hist[Len(hist)].hdrpos + EntryHdrSize + off + 1
       IN  /\ at <= Len(file)
           /\ file' = [file EXCEPT ![at] = (file[at] + 4) % 256]
    /\ tamper' = "corrupted"
    /\ seen' = NoSeen
    /\ UNCHANGED <<mode, fp, ret, hist, nops, p2, ix, out, mem, al, ds, wd, rows, sp>>

(***************************************************************************)
(* Specifications                                                          *)
(***************************************************************************)
Init == InitW

Writer(fails) ==
    \/ \E n \in ChunkSizes, fail \in fails, clock \in WallClock : pcmseq_write(n, fail, clock)
    \/ \E e \in 1..MaxEntries, fail \in fails : pcmseq_seek_w(e, fail)
    \/ \E fail \in fails : pcmseq_close_w(fail)

Opening == pcmseq_open_r \/ IndexStep \/ IndexFail \/ IndexDone

Reader(cap) ==
    \/ \E e \in 0..(MaxEntries + 1) : pcmseq_seek_r(e)
    \/ pcmseq_read(cap, TRUE, TRUE)
    \/ /\ mode = "r"
       /\ \E e \in 1..MaxEntries : \E rg \in Ranges(Slot(p2.sizecache, e, 0)) :
             ReadRange(cap, e, rg[1], rg[2])
    \/ pcmseq_close_r

\* a file is written without stream failures, then opened and read
Next == Writer({FALSE}) \/ Opening \/ Reader(MaxReads)

Spec == Init /\ [][Next]_vars

\* the writer over a stream that may fail in any call
NextW == Writer(BOOLEAN)

SpecW == Init /\ [][NextW]_vars

\* files left by the writer (the sample counts of their closed entries), cut
\* short or damaged before they are opened and read
TFiles == {<<3000>>, <<4096>>, <<3000, 952>>, <<952, 3000>>}

\* the handle and the history after the entries of sizes ns[i..] are written
\* to h, each with one write and closed by a seek to the next entry
RECURSIVE WriteEntries(_, _, _, _)
WriteEntries(h, hs, ns, i) ==
    IF i > Len(ns) THEN [h |-> h, hist |-> hs]
    ELSE LET clock == CHOOSE c \in WallClock : TRUE
             h1 == pcmseq2_write_hdr([h EXCEPT !.entry = i], clock)
             h2 == pcmseq2_write_data(h1, Chunk(i, 0, ns[i]), ns[i], 0)
             h3 == pcmseq2_write_data(h2, <<>>, 0, 1)
             rec == [n |-> ns[i], entry |-> i, hdrpos |-> h.s.pos, sr |-> h.samplerate,
                     time |-> IF h.timestamp = 0 THEN lltime(clock[1], clock[2])
                              ELSE lltime(h.timestamp, h.microtimestamp),
                     closed |-> TRUE]
         IN  WriteEntries(h3, Append(hs, rec), ns, i + 1)

\* files written at a sample rate set with PCMIOSETSR and a time set with
\* PCMIOSETTIME and PCMIOSETTIMEFRACTION (0: the time of the wall clock)
WrittenWith(files, rates, stamps) ==
    /\ mode = "disk"
    /\ \E ns \in files, rate \in rates, stamp \in stamps :
         LET h0 == [s |-> [f |-> <<>>, pos |-> 0, err |-> FALSE, rc |-> 0],
                    entry |-> 1, cursamp |-> 0, entrysize |-> 0, poscache |-> -1,
                    key |-> Zeros(KeyLen), samplerate |-> rate,
                    timestamp |-> stamp[1], microtimestamp |-> stamp[2], rc |-> 0]
             w == WriteEntries(h0, <<>>, ns, 1)
         IN  /\ file = w.h.s.f
             /\ hist = w.hist
    /\ fp = NoFp
    /\ ret = [op |-> "close", rc |-> 0, failed |-> FALSE, raised |-> FALSE]
    /\ nops = 0
    /\ tamper = "none"
    /\ p2 = NoP2
    /\ ix = NoIx
    /\ out = NoOut
    /\ mem = NoMem
    /\ seen = NoSeen
    /\ al = NoAl
    /\ ds = NoDs
    /\ wd = NoWd
    /\ rows = 0
    /\ sp = NoSp

WrittenAt(files, rates) == WrittenWith(files, rates, {<<0, 0>>})

Written(files) == WrittenAt(files, {DefaultSampleRate})

InitT == Written(TFiles)

Tamper ==
    \/ \E by \in TruncBy : Truncate(by)
    \/ \E off \in CorruptAt : Corrupt(off)

NextT == Tamper \/ Opening \/ Reader(MaxReadsT)

SpecT == InitT /\ [][NextT]_vars

(***************************************************************************)
(* A read handle used through all of its calls, on the same files, with    *)
(* mkstemp, mmap and malloc free to fail.                                  *)
(***************************************************************************)
Handle(cap) ==
    \/ \E e \in 0..(MaxEntries + 1) : pcmseq_seek_r(e)
    \/ \E tmpok, allocok \in BOOLEAN : pcmseq_read(cap, tmpok, allocok)
    \/ pcmseq_stat_r
    \/ \E request \in Requests : pcmseq_ctl_r(request)
    \/ pcmseq_close_r

NextM == Tamper \/ Opening \/ Handle(MaxReadsM)

\* the sample counts of the entries of the files the handle is used on
MFiles == {<<3000, 952>>, <<3000>>}

InitM == Written(MFiles)

SpecM == InitM /\ [][NextM]_vars

(***************************************************************************)
(* pcmseq2_getinfo asked about any entry number, on files whose writer was *)
(* given a sample rate with PCMIOSETSR before the first write.             *)
(***************************************************************************)
GFiles == {<<3000, 952>>, <<952>>, <<>>}
GRates == {DefaultSampleRate, 44100, -1}

InitG == WrittenAt(GFiles, GRates)

NextG ==
    \/ Opening
    \/ \E e \in 0..(MaxEntries + 1) : pcmseq_seek_r(e)
    \/ pcmseq_read(MaxReadsG, TRUE, TRUE)
    \/ \E e \in (-1)..(MaxEntries + 1) : GetInfo(e)
    \/ pcmseq_close_r

SpecG == InitG /\ [][NextG]_vars

(***************************************************************************)
(* pcm_read on a handle opened with "w" and pcm_write on a handle opened   *)
(* with "r", among the calls of Spec.                                      *)
(***************************************************************************)
\* the write that takes a handle of either kind for a write handle with no
\* stream: rc is 0 when outfp is NULL
pcmseq_write_r_rc_0 ==
    /\ mode = "r"
    /\ ret' = [op |-> "write", rc |-> 0, failed |-> FALSE, raised |-> FALSE]
    /\ UNCHANGED <<mode, file, fp, hist, nops, rvars>>

\* pcmseq_write(fp, buf, nsamples) with fp->flags == O_RDONLY: pcm_errno is
\* EINVAL and rc is still -1; pcmfile_write does not look at it
pcmseq_write_r ==
    /\ mode = "r"
    /\ ret' = [op |-> "write", rc |-> -1, failed |-> FALSE, raised |-> FALSE]
    /\ UNCHANGED <<mode, file, fp, hist, nops, rvars>>

\* pcmseq_read(fp, &buf, &nsamples) with fp->flags == O_WRONLY: pcm_errno is
\* EOPNOTSUPP; pcmfile_read raises IOError
pcmseq_read_w ==
    /\ mode = "w"
    /\ ret' = [op |-> "read", rc |-> -1, failed |-> FALSE, raised |-> TRUE]
    /\ UNCHANGED <<mode, file, fp, hist, nops, rvars>>

NextU ==
    \/ Writer({FALSE})
    \/ pcmseq_read_w
    \/ Opening
    \/ \E e \in 0..(MaxEntries + 1) : pcmseq_seek_r(e)
    \/ pcmseq_read(MaxReadsU, TRUE, TRUE)
    \/ pcmseq_write_r
    \/ pcmseq_close_r

SpecU == Init /\ [][NextU]_vars

(***************************************************************************)
(* pcm_stat and pcm_ctl on files written with the time of the wall clock   *)
(* and with times set by the caller.                                       *)
(***************************************************************************)
SFiles == {<<3000, 952>>, <<952>>}
\* seconds and microseconds given with PCMIOSETTIME and PCMIOSETTIMEFRACTION
SStamps == {<<0, 0>>, <<18005, 0>>, <<1, 0>>, <<86400, 999999>>}

InitS == WrittenWith(SFiles, {DefaultSampleRate}, SStamps)

NextS ==
    \/ pcmseq_open_r \/ IndexStep \/ IndexDone
    \/ \E e \in 0..(MaxEntries + 1) : pcmseq_seek_r(e)
    \/ pcmseq_stat_r
    \/ \E request \in Requests : pcmseq_ctl_r(request)
    \/ pcmseq_close_r

SpecS == InitS /\ [][NextS]_vars

(***************************************************************************)
(* sort_unit_episode of klustio.cc (readklu of klusters.cc is the same     *)
(* code).  A file is the sequence of the numbers in it, which is all that  *)
(* fscanf with "%d\n" and "%ld" sees of it; al.cpos and al.fpos count the  *)
(* numbers read from the cluster file and the feature file.               *)
(***************************************************************************)
pcmvars == <<mode, file, fp, ret, hist, nops, tamper, p2, ix, out, mem, seen>>

\* no PCMFILE in use
NoPcm ==
    /\ mode = "disk"
    /\ file = <<>>
    /\ fp = NoFp
    /\ ret = [op |-> "close", rc |-> 0, failed |-> FALSE, raised |-> FALSE]
    /\ hist = <<>>
    /\ nops = 0
    /\ tamper = "none"
    /\ p2 = NoP2
    /\ ix = NoIx
    /\ out = NoOut
    /\ mem = NoMem
    /\ seen = NoSeen

\* what fscanf returns at the end of the file
EOF == -1

\* getclusters(cfp, clusters): the first line is thrown away; the loop
\* inserts clust once more after the read that met the end of the file
getclusters(clu) ==
    IF Len(clu) = 0 THEN {}
    ELSE {clu[i] : i \in (IF Len(clu) = 1 THEN {1} ELSE 2..Len(clu))}

\* if ((clusters.size() > 1) && (clusters.count(c))) clusters.erase(c)
EraseIfMore(clusters, c) ==
    IF (Cardinality(clusters) > 1) /\ (c \in clusters) THEN clusters \ {c} ELSE clusters

\* rp = fscanf(ffp, "%ld", &atime)
ScanFeature(a) ==
    IF a.fpos < Len(a.fet)
    THEN [a EXCEPT !.rp = 1, !.atime = a.fet[a.fpos + 1], !.fpos = a.fpos + 1]
    ELSE [a EXCEPT !.rp = EOF]

\* for (int j = 0; j < nfeats && rp != EOF; j++) rp = fscanf(ffp, "%ld", &atime)
RECURSIVE ScanFeatures(_, _)
ScanFeatures(a, j) ==
    IF (j < a.nfeats) /\ (a.rp # EOF) THEN ScanFeatures(ScanFeature(a), j + 1) ELSE a

\* rp = fscanf(cfp, "%d\n", &clust)
ScanCluster(a) ==
    IF a.cpos < Len(a.clu)
    THEN [a EXCEPT !.rp = 1, !.clust = a.clu[a.cpos + 1], !.cpos = a.cpos + 1]
    ELSE [a EXCEPT !.rp = EOF]

\* if (atime < et) printf("Warning ..."): warned counts the warnings printed
Warn(a) == IF a.atime < a.et THEN [a EXCEPT !.warned = @ + 1] ELSE a

\* while ((nt > 0) && (atime >= nt)): episode counts from 0, atimes[i] is
\* a.atimes[i + 1]; read holds the indices i at which atimes was read
RECURSIVE AdvanceEpisode(_)
AdvanceEpisode(a) ==
    IF (a.nt > 0) /\ (a.atime >= a.nt)
    THEN AdvanceEpisode([a EXCEPT !.episode = a.episode + 1,
                                  !.et = a.nt,
                                  !.nt = IF a.episode + 2 < Len(a.atimes)
                                         THEN a.atimes[a.episode + 3] ELSE -1,
                                  !.read = IF a.episode + 2 < Len(a.atimes)
                                           THEN @ \cup {a.episode + 2} ELSE @])
    ELSE a

\* uvec[clust][episode].push_back(atime - et); past the end of the vector of
\* episodes the behaviour is undefined
PushBack(a) ==
    IF a.episode < Len(a.atimes)
    THEN [a EXCEPT !.uvec[a.clust][a.episode + 1] = Append(@, a.atime - a.et)]
    ELSE [a EXCEPT !.pc = "undefined"]

\* what atimes[episode + 1] reads past the end of a vector of one episode
PastTheEnd == {-1, 200}

\* from the entry of sort_unit_episode to the while loop
sort_unit_episode_begin ==
    /\ al.pc = "start"
    /\ \E past \in PastTheEnd :
         LET clusters == EraseIfMore(EraseIfMore(getclusters(al.clu), 0), 1)
         IN  al' = [al EXCEPT
                      !.pc = "loop",
                      \* the first line of each file: nclusts and nfeats
                      !.cpos = 1, !.fpos = 1, !.nfeats = al.fet[1], !.rp = 1,
                      !.clusters = clusters,
                      !.uvec = [c \in clusters |-> [e \in 1..Len(al.atimes) |-> <<>>]],
                      !.episode = 0,
                      !.read = {0, 1},
                      !.et = al.atimes[1],
                      !.nt = IF Len(al.atimes) > 1 THEN al.atimes[2] ELSE past]
    /\ UNCHANGED <<pcmvars, ds, wd, rows, sp>>

\* one pass of while (rp != EOF)
sort_unit_episode_loop ==
    /\ al.pc = "loop"
    /\ al.rp # EOF
    /\ LET counted(a) ==
               IF a.clust \in a.clusters THEN PushBack(AdvanceEpisode(Warn(a))) ELSE a
       IN  al' = counted(ScanCluster(ScanFeatures(al, 0)))
    /\ UNCHANGED <<pcmvars, ds, wd, rows, sp>>

\* the loop ends and the function returns
sort_unit_episode_end ==
    /\ al.pc = "loop"
    /\ al.rp = EOF
    /\ al' = [al EXCEPT !.pc = "done"]
    /\ UNCHANGED <<pcmvars, ds, wd, rows, sp>>

\* the episode start times (abstimes) given to the function
KStarts == {<<0, 100, 250>>, <<0, 100>>, <<0>>, <<50, 100, 250>>}
\* the times of the events of the feature file, sorted ascending but for
\* the last, whose second event lies before the first
KTimes == {<<10, 105, 260, 300>>, <<10, 300>>, <<105, 260>>, <<100, 250>>, <<260>>,
           <<260, 10>>}
\* the cluster numbers of the cluster file
KClusters == {1, 2}
\* the numbers on a line of the feature file, the time being the last
KFeats == {1, 2}

RECURSIVE FetLines(_, _)
FetLines(ts, nfeats) ==
    IF ts = <<>> THEN <<>>
    ELSE [j \in 1..(nfeats - 1) |-> 0] \o <<Head(ts)>> \o FetLines(Tail(ts), nfeats)

InitK ==
    /\ NoPcm
    /\ ds = NoDs
    /\ wd = NoWd
    /\ rows = 0
    /\ sp = NoSp
    /\ \E atimes \in KStarts, ts \in KTimes, nfeats \in KFeats :
         \E cs \in [1..Len(ts) -> KClusters] :
            al = [pc |-> "start", atimes |-> atimes, times |-> ts,
                  clu |-> <<Cardinality({cs[i] : i \in 1..Len(ts)})>> \o cs,
                  fet |-> <<nfeats>> \o FetLines(ts, nfeats),
                  cpos |-> 0, fpos |-> 0, nfeats |-> 0, rp |-> 0,
                  \* atime and clust are set by the first pass of the loop
                  atime |-> 0, clust |-> 0,
                  clusters |-> {}, uvec |-> <<>>, episode |-> 0, et |-> 0, nt |-> 0,
                  warned |-> 0, read |-> {}]

NextK == sort_unit_episode_begin \/ sort_unit_episode_loop \/ sort_unit_episode_end

SpecK == InitK /\ [][NextK]_vars

(***************************************************************************)
(* detect_spikes of spikes.pyx: ds holds the attributes of the object, the *)
(* locals i and out of the last call of send, and, of the stream it is     *)
(* sent block by block: the stream, how much of it was sent, the peaks     *)
(* returned so far as positions in the stream, and for each peak how far   *)
(* it is from the sample that crossed the threshold.                       *)
(***************************************************************************)
compare_sign(x, y) == ((x > 0) /\ (y > 0)) \/ ((x < 0) /\ (y < 0))

\* an AFTER_PEAK state that takes the next sample past the threshold for a
\* new crossing
after_peak_rearmed(d, x) ==
    IF compare_sign(x - d.thresh, d.thresh)
    THEN [d EXCEPT !.prev_val = x, !.n_after_crossing = 0, !.state = BEFORE_PEAK,
                   !.crossed = d.sent + d.i]
    ELSE [d EXCEPT !.state = BELOW_THRESHOLD]

\* elif self.state is AFTER_PEAK: wait for a sample back across the threshold
after_peak(d, x) ==
    IF compare_sign(d.thresh - x, d.thresh)
    THEN [d EXCEPT !.state = BELOW_THRESHOLD]
    ELSE d

\* one pass of the while loop of send, for the sample x
detect(d, x) ==
    LET next(e) == [e EXCEPT !.i = e.i + 1]
    IN  next(
          IF d.state = BELOW_THRESHOLD
          THEN IF compare_sign(x - d.thresh, d.thresh)
               THEN [d EXCEPT !.prev_val = x, !.n_after_crossing = 0, !.state = BEFORE_PEAK,
                              !.crossed = d.sent + d.i]
               ELSE d
          ELSE IF d.state = BEFORE_PEAK
          THEN IF compare_sign(d.prev_val - x, d.thresh)
               THEN [d EXCEPT !.out = Append(d.out, d.i - 1), !.state = AFTER_PEAK,
                              !.peaks = Append(d.peaks, d.sent + d.i - 1),
                              !.lags = Append(d.lags, d.sent + d.i - 1 - d.crossed)]
               ELSE IF d.n_after_crossing > d.n_after
               THEN [d EXCEPT !.state = BELOW_THRESHOLD]
               ELSE [d EXCEPT !.prev_val = x, !.n_after_crossing = d.n_after_crossing + 1]
          ELSE after_peak(d, x))

\* the while loop of send over the samples from the k-th on
RECURSIVE SendLoop(_, _, _)
SendLoop(d, samples, k) ==
    IF k > Len(samples) THEN d ELSE SendLoop(detect(d, samples[k]), samples, k + 1)

\* a send that forgets where the detector was
SendFromBelow(d, samples) ==
    LET returned(e) == [e EXCEPT !.sent = d.sent + Len(samples)]
    IN  returned(SendLoop([d EXCEPT !.i = 0, !.out = <<>>, !.state = BELOW_THRESHOLD],
                          samples, 1))

\* send(samples) on the object d
Send(d, samples) ==
    LET returned(e) == [e EXCEPT !.sent = d.sent + Len(samples)]
    IN  returned(SendLoop([d EXCEPT !.i = 0, !.out = <<>>], samples, 1))

\* the next n samples of the stream are sent
send(n) ==
    /\ ds.pc = "made"
    /\ ds.sent + n <= Len(ds.stream)
    /\ ds' = Send(ds, SubSeq(ds.stream, ds.sent + 1, ds.sent + n))
    /\ UNCHANGED <<pcmvars, al, wd, rows, sp>>

\* detect_spikes(thresh, n_after) just made
Made(thresh, n_after, stream) ==
    [pc |-> "made", thresh |-> thresh, n_after |-> n_after, state |-> BELOW_THRESHOLD,
     prev_val |-> 0, n_after_crossing |-> 0, i |-> 0, out |-> <<>>,
     stream |-> stream, sent |-> 0, crossed |-> 0, peaks |-> <<>>, lags |-> <<>>]

DThresh == {2, -2}
DAfter == {0, 1}
DSamples == {-5, -3, 0, 3, 5}

InitD ==
    /\ NoPcm
    /\ al = NoAl
    /\ wd = NoWd
    /\ rows = 0
    /\ sp = NoSp
    /\ \E thresh \in DThresh, n_after \in DAfter, len \in 1..MaxStream :
         \E stream \in [1..len -> DSamples] : ds = Made(thresh, n_after, stream)

NextD == \E n \in 0..MaxBlock : send(n)

SpecD == InitD /\ [][NextD]_vars

(***************************************************************************)
(* The writer pass by pass: wd holds a write handle (PCMFILE fields and    *)
(* stream), the entry it is in, and, while pcmseq2_write_data runs, its    *)
(* arguments and locals.  The calls are those pcmseq_write, pcmseq_seek    *)
(* and pcmseq_close make: pcmseq2_write_hdr when no entry is started,      *)
(* pcmseq2_write_data(fp, buf, n, 0) for a write, and                     *)
(* pcmseq2_write_data(fp, NULL, 0, 1) to close a started entry.            *)
(***************************************************************************)
\* chunk lengths that fall short of, meet and cross the block boundaries
BlockChunks == {0, 53, 952, 1021, 2048}

\* pcmseq_write with no entry started: pcmseq2_write_hdr
write_hdr(clock) ==
    /\ wd.pc = "idle"
    /\ ~wd.started
    /\ wd.k < MaxEntries
    /\ wd' = [wd EXCEPT !.h = pcmseq2_write_hdr([wd.h EXCEPT !.entry = wd.k + 1], clock),
                        !.started = TRUE, !.k = wd.k + 1, !.hdrpos = wd.h.s.pos,
                        !.off = 0, !.writes = 0]
    /\ UNCHANGED <<pcmvars, al, ds, rows, sp>>

\* pcmseq2_write_data is called and comes to its loop
write_data_enter(n, lastsegment) ==
    /\ wd.pc = "idle"
    /\ wd.started
    /\ (lastsegment = 0) => (wd.writes < MaxWrites) /\ (wd.off + n <= MaxEntrySamples)
    /\ (lastsegment # 0) => (n = 0)
    /\ wd' = [wd EXCEPT !.pc = "loop", !.nsamples = n, !.lastsegment = lastsegment,
                        !.w = WDEnter(wd.h, Chunk(wd.k, wd.off, n), n, lastsegment)]
    /\ UNCHANGED <<pcmvars, al, ds, rows, sp>>

\* one pass of the while loop
write_data_pass ==
    /\ wd.pc = "loop"
    /\ wd.w.nsamples > 0
    /\ wd' = [wd EXCEPT !.w = WDBody(wd.w, wd.lastsegment, wd.h.key,
                                     wd.h.entrysize + wd.nsamples)]
    /\ UNCHANGED <<pcmvars, al, ds, rows, sp>>

\* the loop is left and pcmseq2_write_data returns
write_data_return ==
    /\ wd.pc = "loop"
    /\ wd.w.nsamples = 0
    /\ wd' = [wd EXCEPT !.pc = "idle", !.w = <<>>,
                        !.h = WDReturn(wd.h, wd.w, wd.nsamples, wd.lastsegment),
                        !.off = wd.off + wd.nsamples, !.writes = wd.writes + 1,
                        !.started = (wd.lastsegment = 0)]
    /\ UNCHANGED <<pcmvars, al, ds, rows, sp>>

\* pcm_open(name, "w"): an empty file and a handle from malloc
InitB ==
    /\ NoPcm
    /\ al = NoAl
    /\ ds = NoDs
    /\ \E pc \in UninitPos :
         wd = [pc |-> "idle",
               h |-> [s |-> [f |-> <<>>, pos |-> 0, err |-> FALSE, rc |-> 0],
                      entry |-> 1, cursamp |-> 0, entrysize |-> 0, poscache |-> pc,
                      key |-> Zeros(KeyLen), samplerate |-> DefaultSampleRate,
                      timestamp |-> 0, microtimestamp |-> 0, rc |-> 0],
               started |-> FALSE, k |-> 0, hdrpos |-> 0, off |-> 0, writes |-> 0,
               nsamples |-> 0, lastsegment |-> 0, w |-> <<>>]
    /\ rows = 0
    /\ sp = NoSp

NextB ==
    \/ \E clock \in WallClock : write_hdr(clock)
    \/ \E n \in BlockChunks : write_data_enter(n, 0)
    \/ write_data_enter(0, 1)
    \/ write_data_pass
    \/ write_data_return

SpecB == InitB /\ [][NextB]_vars

(***************************************************************************)
(* pcmseq2_scantoentrystart pass by pass, started at a segment of a file   *)
(* the writer left: ix holds the position and the stride of the scan, the  *)
(* offset of the last seek, and where the scan was started.                *)
(***************************************************************************)
\* samples in which the samples 10 and 11 of the first entry are 1 and 13088
\* (the bytes 01 00 20 33)
KeyInSamples ==
    [DataBytes EXCEPT ![1] = [i \in DOMAIN DataBytes[1] |->
                                IF i = 21 THEN 1 ELSE IF i = 22 THEN 0
                                ELSE IF i = 23 THEN 32 ELSE IF i = 24 THEN 51
                                ELSE DataBytes[1][i]]]

\* the handle and the history after the entries of sizes ns[i..] are written
\* to h from the samples data[i], each with one write and closed by a seek
RECURSIVE WriteSamples(_, _, _, _, _)
WriteSamples(h, hs, ns, i, data) ==
    IF i > Len(ns) THEN [h |-> h, hist |-> hs]
    ELSE LET clock == CHOOSE c \in WallClock : TRUE
             h1 == pcmseq2_write_hdr([h EXCEPT !.entry = i], clock)
             h2 == pcmseq2_write_data(h1, SubSeq(data[i], 1, 2 * ns[i]), ns[i], 0)
             h3 == pcmseq2_write_data(h2, <<>>, 0, 1)
             rec == [n |-> ns[i], entry |-> i, hdrpos |-> h.s.pos, sr |-> h.samplerate,
                     time |-> lltime(clock[1], clock[2]), closed |-> TRUE]
         IN  WriteSamples(h3, Append(hs, rec), ns, i + 1, data)

EFiles == {<<952>>, <<3000>>, <<4096>>, <<952, 952>>, <<952, 4096>>, <<3000, 4096>>, <<4096, 3000>>}
EData == {DataBytes, KeyInSamples}

InitE ==
    /\ mode = "disk"
    /\ \E ns \in EFiles, data \in EData :
         LET h0 == [s |-> [f |-> <<>>, pos |-> 0, err |-> FALSE, rc |-> 0],
                    entry |-> 1, cursamp |-> 0, entrysize |-> 0, poscache |-> -1,
                    key |-> Zeros(KeyLen), samplerate |-> DefaultSampleRate,
                    timestamp |-> 0, microtimestamp |-> 0, rc |-> 0]
             w == WriteSamples(h0, <<>>, ns, 1, data)
         IN  /\ file = w.h.s.f
             /\ hist = w.hist
    /\ fp = NoFp
    /\ ret = [op |-> "close", rc |-> 0, failed |-> FALSE, raised |-> FALSE]
    /\ nops = 0
    /\ tamper = "none"
    /\ p2 = NoP2
    /\ ix = NoIx
    /\ out = NoOut
    /\ mem = NoMem
    /\ seen = NoSeen
    /\ al = NoAl
    /\ ds = NoDs
    /\ wd = NoWd
    /\ rows = 0
    /\ sp = NoSp

\* the offsets at which the segments of entry e of the file begin
SegmentsOf(e) ==
    LET first == hist[e].hdrpos + EntryHdrSize
        end == IF e < Len(hist) THEN hist[e + 1].hdrpos ELSE Len(file)
    IN  {first + i * SegmentSize : i \in 0..((end - first) \div SegmentSize - 1)}

\* pcmseq2_scantoentrystart is called at offset pos, a segment of entry e:
\* the header there is read and validated
scantoentrystart_begin(e, pos) ==
    /\ mode = "disk"
    /\ ix.pc = "none"
    /\ LET rd == fread(file, [pos |-> pos, eof |-> FALSE], SegHdrRead)
       IN  ix' = IF ValidSegHdr(rd, 2)
                 THEN [pc |-> "scan", pos |-> pos, step |-> 256, sought |-> pos,
                       rc |-> 0, from |-> pos, entry |-> e]
                 ELSE [pc |-> "scanned", pos |-> rd.r.pos, step |-> 256, sought |-> pos,
                       rc |-> -1, from |-> pos, entry |-> e]
    /\ UNCHANGED <<mode, file, fp, ret, hist, nops, tamper, p2, out, mem, seen, al, ds, wd, rows, sp>>

\* one pass of its loop; when the loop is left, the seek back over the entry
\* header
scantoentrystart_pass ==
    /\ ix.pc = "scan"
    /\ LET passed(sc) ==
               IF sc.done
               THEN [ix EXCEPT !.pc = "scanned", !.step = sc.step,
                               !.sought = sc.pos - EntryHdrSize,
                               !.pos = fseekcur([pos |-> sc.pos, eof |-> FALSE],
                                                -EntryHdrSize).pos]
               ELSE [ix EXCEPT !.pos = sc.pos, !.step = sc.step, !.sought = sc.sought]
       IN  ix' = passed(ScanPass(file, ix.pos, ix.step, 2))
    /\ UNCHANGED <<mode, file, fp, ret, hist, nops, tamper, p2, out, mem, seen, al, ds, wd, rows, sp>>

\* it returns
scantoentrystart_end ==
    /\ ix.pc = "scanned"
    /\ ix' = NoIx
    /\ UNCHANGED <<mode, file, fp, ret, hist, nops, tamper, p2, out, mem, seen, al, ds, wd, rows, sp>>

NextE ==
    \/ \E e \in DOMAIN hist : \E pos \in SegmentsOf(e) : scantoentrystart_begin(e, pos)
    \/ scantoentrystart_pass
    \/ scantoentrystart_end

SpecE == InitE /\ [][NextE]_vars

(***************************************************************************)
(* The files of the writer with one entry header damaged before they are   *)
(* opened: the header pcmseq2_indexfile validates for entry e.             *)
(***************************************************************************)
\* damage to the control word of the header of entry e
DamageEntHdr(e) ==
    /\ mode = "disk"
    /\ tamper = "none"
    /\ e \in DOMAIN hist
    /\ LET at == hist[e].hdrpos + 1 - rows * (EntryHdrSize + SegmentSize)
       IN  /\ at >= 1
           /\ at <= Len(file)
           /\ file' = [file EXCEPT ![at] = (file[at] + 4) % 256]
    /\ tamper' = "corrupted"
    /\ seen' = NoSeen
    /\ UNCHANGED <<mode, fp, ret, hist, nops, p2, ix, out, mem, al, ds, wd, rows, sp>>

InitH == Written(TFiles)

NextH == (\E e \in 1..MaxEntries : DamageEntHdr(e)) \/ Opening \/ Reader(MaxReadsT)

SpecH == InitH /\ [][NextH]_vars

(***************************************************************************)
(* Files with as many entries as the arrays of P2FILE have slots: entries  *)
(* of one segment each, written one after another and closed.  The state   *)
(* keeps the bytes of the last entry in file and the entries before it as  *)
(* the count rows; the handle is opened, asked and closed, not read.       *)
(***************************************************************************)
\* the numbers of entries of these files
DirCounts == {CACHESIZE - 1, CACHESIZE}

InitX ==
    /\ mode = "disk"
    /\ \E n \in DirCounts :
         /\ rows = n - 1
         /\ sp = NoSp
         /\ file = WrittenEntry(n).s.f
         /\ hist = [k \in 1..n |->
                       [n |-> 952, entry |-> k,
                        hdrpos |-> (k - 1) * (EntryHdrSize + SegmentSize),
                        sr |-> DefaultSampleRate,
                        time |-> lltime(1200000000, 250000), closed |-> TRUE]]
    /\ fp = NoFp
    /\ ret = [op |-> "close", rc |-> 0, failed |-> FALSE, raised |-> FALSE]
    /\ nops = 0
    /\ tamper = "none"
    /\ p2 = NoP2
    /\ ix = NoIx
    /\ out = NoOut
    /\ mem = NoMem
    /\ seen = NoSeen
    /\ al = NoAl
    /\ ds = NoDs
    /\ wd = NoWd

\* n passes of the for (;;) loop of pcmseq2_indexfile from the locals x, or
\* the passes up to its exit
RECURSIVE IndexPasses(_, _, _)
IndexPasses(f, x, n) ==
    IF x.pc # "loop" THEN x
    ELSE IF n = 1 THEN IndexBody(f, x)
    ELSE IndexPasses(f, IndexPasses(f, x, n \div 2), n - (n \div 2))

\* the loop to its exit: a loop that ends takes no more passes than the file
\* has segments
IndexLoop(f, x) == IndexPasses(f, x, (Len(f) \div SegmentSize) + 1)

\* what the build can make of the loop that left x: a store to
\* poscache[curentry] with curentry >= CACHESIZE lies outside the array, and
\* either lands in the members of P2FILE that follow it or ends the process
IndexOutcomes(x) ==
    IF \A i \in DOMAIN x.poscache : i < CACHESIZE THEN {x}
    ELSE {x, [x EXCEPT !.pc = "killed"]}

\* all passes of a loop that ends, in one step
IndexAll ==
    /\ mode = "index"
    /\ ix.pc = "loop"
    /\ ix' \in IndexOutcomes(IndexLoop(Disk, ix))
    /\ ix'.pc # "loop"
    /\ ret' = [ret EXCEPT !.op = "indexing"]
    /\ UNCHANGED <<mode, file, fp, hist, nops, tamper, p2, out, mem, seen, al, ds, wd, rows, sp>>

NextX ==
    \/ DamageEntHdr(Len(hist))
    \/ pcmseq_open_r \/ IndexAll \/ IndexFail \/ IndexDone
    \/ \E e \in 0..(MaxEntries + 1) : pcmseq_seek_r(e)
    \/ pcmseq_stat_r
    \/ \E request \in Requests : pcmseq_ctl_r(request)
    \/ pcmseq_close_r

SpecX == InitX /\ [][NextX]_vars

(***************************************************************************)
(* Files of sub-format 1, as the writer leaves them when built with VMS    *)
(* defined: a record-size word before the entry header and before each of  *)
(* the three blocks of a segment.  They are cut short, opened and read.    *)
(***************************************************************************)
\* the bytes of f from pos on with the record sizes put in; starts are the
\* offsets of the entry headers of f
RECURSIVE VmsFrom(_, _, _)
VmsFrom(f, pos, starts) ==
    LET b1 == 34 + 2 * Block1
        b2 == b1 + 2 + 2 * (Block12 - Block1)
    IN  IF pos >= Len(f) THEN <<>>
        ELSE IF pos \in starts
        THEN <<54, 0>> \o SubSeq(f, pos + 1, pos + EntryHdrSize)
                 \o VmsFrom(f, pos + EntryHdrSize, starts)
        ELSE <<252, 7>> \o SubSeq(f, pos + 1, pos + b1)
                 \o <<252, 7>> \o SubSeq(f, pos + b1 + 1, pos + b2)
                 \o <<46, 0>> \o SubSeq(f, pos + b2 + 1, pos + SegmentSize)
                 \o VmsFrom(f, pos + SegmentSize, starts)

\* the offset in the file with record sizes of the header of entry e, which
\* lies at pos without them
VmsPos(pos, e) ==
    pos + 2 * (e - 1) + 6 * ((pos - (e - 1) * EntryHdrSize) \div SegmentSize)

InitV ==
    /\ mode = "disk"
    /\ \E ns \in TFiles :
         LET h0 == [s |-> [f |-> <<>>, pos |-> 0, err |-> FALSE, rc |-> 0],
                    entry |-> 1, cursamp |-> 0, entrysize |-> 0, poscache |-> -1,
                    key |-> Zeros(KeyLen), samplerate |-> DefaultSampleRate,
                    timestamp |-> 0, microtimestamp |-> 0, rc |-> 0]
             w == WriteEntries(h0, <<>>, ns, 1)
         IN  /\ file = VmsFrom(w.h.s.f, 0, {w.hist[e].hdrpos : e \in DOMAIN w.hist})
             /\ hist = [e \in DOMAIN w.hist |->
                           [w.hist[e] EXCEPT !.hdrpos = VmsPos(@, e)]]
    /\ fp = NoFp
    /\ ret = [op |-> "close", rc |-> 0, failed |-> FALSE, raised |-> FALSE]
    /\ nops = 0
    /\ tamper = "none"
    /\ p2 = NoP2
    /\ ix = NoIx
    /\ out = NoOut
    /\ mem = NoMem
    /\ seen = NoSeen
    /\ al = NoAl
    /\ ds = NoDs
    /\ wd = NoWd
    /\ rows = 0
    /\ sp = NoSp

NextV == (\E by \in TruncBy : Truncate(by)) \/ Opening \/ Reader(MaxReadsT)

SpecV == InitV /\ [][NextV]_vars

(***************************************************************************)
(* Properties                                                              *)
(***************************************************************************)
OpenFailed == (mode = "disk") /\ (ret.op = "open") /\ (ret.rc # 0)

\* C1: every entry that was written and closed (N >= 1 samples in any number
\* of writes) is read back whole from the reopened file: the file opens, and
\* a read of entry e returns exactly the N samples written to it, in order.
C1_RoundTrip ==
    ((Len(hist) >= 1) /\ (\A k \in DOMAIN hist : hist[k].n > 0)) =>
        /\ ~OpenFailed
        /\ ((mode = "r") /\ (out.op = "read")) =>
              /\ out.entry \in DOMAIN hist
              /\ out.rc = 0
              /\ out.nsamples = hist[out.entry].n
              /\ out.buf = Chunk(out.entry, 0, hist[out.entry].n)

\* C2: indexing a file the writer left with k >= 1 closed entries succeeds
\* and gives a directory of exactly k entries, entry e carrying the offset of
\* its header (0 for entry 1), its sample count, its sample rate and its
\* timestamp.
C2_IndexMatchesWriter ==
    (Len(hist) >= 1) =>
        /\ ~OpenFailed
        /\ (mode = "r") =>
              /\ p2.lastentry = Len(hist)
              /\ \A e \in DOMAIN hist :
                    /\ Slot(p2.poscache, e, -1) = hist[e].hdrpos
                    /\ Slot(p2.sizecache, e, -1) = hist[e].n
                    /\ Slot(p2.srcache, e, -1) = hist[e].sr
                    /\ Slot(p2.timecache, e, <<>>) = hist[e].time
              /\ Slot(p2.poscache, 1, -1) = 0

\* C3: indexing terminates: no pass of the indexing loop leaves the loop
\* where it was (same file position, same entry counter, same directory),
\* which a deterministic loop would then repeat forever.
C3_IndexingProgresses ==
    ((mode = "index") /\ (ix.pc = "loop")) => (IndexBody(file, ix) # ix)

\* the samples of the last entry held by segments that are whole in the file
WholeSegmentSamples ==
    LET h == hist[Len(hist)]
        segs == (Len(file) - h.hdrpos - EntryHdrSize) \div SegmentSize
        m == segs * SegmentSamples
    IN  IF m < h.n THEN m ELSE h.n

\* C4: when the end of the last entry's final segment is cut off, indexing
\* still succeeds, the directory has as many entries as were written, and the
\* cut entry has its partial sample count (at least the samples of its whole
\* segments, at most the samples written).
C4_TruncatedFileIndexed ==
    (tamper = "truncated") =>
        /\ ~OpenFailed
        /\ (mode = "r") =>
              /\ p2.lastentry = Len(hist)
              /\ Slot(p2.sizecache, Len(hist), -1) >= WholeSegmentSamples
              /\ Slot(p2.sizecache, Len(hist), -1) <= hist[Len(hist)].n

\* C5: a read that meets a header it cannot validate (the entry header, the
\* match key of a segment, or an unknown control word) signals an error; it
\* is never reported as success.
C5_ValidationFailureSignalled ==
    ((mode = "r") /\ (out.op = "range") /\ (out.why \in {"enthdr", "segkey", "ctlword"})) =>
        (out.rc = -1)

\* C6: a range read of samples start..stop of an entry of N samples (0 <=
\* start <= stop < N) succeeds and puts exactly stop - start + 1 samples in
\* the buffer, the samples start..stop of the entry, wherever the range lies
\* relative to the sub-block and segment boundaries; N = 3000, start = 1000,
\* stop = 2500 gives 1501 samples.
C6_PartialRange ==
    ((mode = "r") /\ (out.op = "range") /\ (out.entry \in DOMAIN hist)
        /\ (out.stop < hist[out.entry].n)) =>
        /\ out.rc = 0
        /\ out.numwritten = out.stop - out.start + 1
        /\ Len(out.buf) = 2 * (out.stop - out.start + 1)
        /\ out.buf = Chunk(out.entry, out.start, out.stop - out.start + 1)
        /\ ((hist[out.entry].n = 3000) /\ (out.start = 1000) /\ (out.stop = 2500)) =>
              (out.numwritten = 1501)

\* a range that crosses the segment boundary and all three sub-blocks of the
\* second segment's start was read from an entry of 3000 samples
C6_Witness ==
    /\ mode = "r"
    /\ out.op = "range"
    /\ out.entry \in DOMAIN hist
    /\ hist[out.entry].n = 3000
    /\ out.start = 1000
    /\ out.stop = 2500
    /\ out.rc = 0
    /\ out.numwritten = 1501

\* C7: on a read handle whose directory has entry_count entries, a seek to n
\* succeeds and makes n the current entry when 1 <= n <= entry_count;
\* otherwise (n = 0, n = entry_count + 1) it fails and the current entry is
\* the one before the call.
C7_SeekBoundary ==
    [][((mode = "r") /\ (mode' = "r") /\ (ret'.op = "seek") /\ (p2' = p2) /\ (out' = out)
            /\ (nops' = nops)) =>
        IF (ret'.arg >= 1) /\ (ret'.arg <= p2.lastentry)
        THEN (ret'.rc = 0) /\ (fp'.entry = ret'.arg)
        ELSE (ret'.rc = -1) /\ (fp'.entry = fp.entry)]_vars

\* entry 2 of 2 is current and a seek to entry 0 has just failed
C7_Witness ==
    /\ mode = "r"
    /\ p2.lastentry = 2
    /\ ret.op = "seek"
    /\ ret.arg = 0
    /\ ret.rc = -1
    /\ fp.entry = 2

\* where in its segment the next sample goes, by the block state
NextSampleOffset(c) ==
    IF SegState(c) = FIRSTSEG THEN SegHdrRead - 2 + 2 * c
    ELSE IF SegState(c) = MIDDLESEG THEN SegHdrRead + 2 * c
    ELSE SegHdrRead + 2 + 2 * c

\* C8 as stated: while an entry is being written cursamp is in [0, 2048).
C8_CursampBelow2048 ==
    ((mode = "w") /\ (fp.entrystarted # 0)) => (fp.cursamp \in 0..(SegmentSamples - 1))

\* C8 amended: while an entry is being written cursamp is in [0, 2048]; it is
\* 2048 from write_header until the first sample is written, and the number
\* of samples written modulo 2048 afterwards; the block state for the next
\* write is FIRST below 1005, MIDDLE from 1005 to 2025, LAST from 2026 (so
\* LAST governs the first write of an entry), and it is the sub-block of the
\* segment at which the stream stands.
C8_CursampAndBlockState ==
    ((mode = "w") /\ (fp.entrystarted # 0)) =>
        LET h == hist[Len(hist)]
            c == fp.cursamp
        IN  /\ c \in 0..SegmentSamples
            /\ (c = SegmentSamples) <=> (h.n = 0)
            /\ (h.n > 0) => (c = h.n % SegmentSamples)
            /\ SegState(c) = (IF c < 1005 THEN FIRSTSEG
                              ELSE IF c < 2026 THEN MIDDLESEG ELSE LASTSEG)
            /\ (~fp.err /\ (h.n > 0)) =>
                  (fp.pos = h.hdrpos + EntryHdrSize
                            + (h.n \div SegmentSamples) * SegmentSize + NextSampleOffset(c))
            /\ (~fp.err /\ (h.n = 0)) => (fp.pos = h.hdrpos + EntryHdrSize)

\* the second entry of a file has its header and no sample yet: cursamp is
\* 2048 and the stream stands right after the header
C8_Witness ==
    /\ mode = "w"
    /\ fp.entrystarted # 0
    /\ ~fp.err
    /\ hist[Len(hist)].n = 0
    /\ fp.cursamp = SegmentSamples
    /\ Len(hist) = 2
    /\ hist[1].n = 3000

\* the segments that follow one another in f from offset pos
RECURSIVE SegmentsFrom(_, _)
SegmentsFrom(f, pos) ==
    IF (pos + 4 <= Len(f)) /\ (SubSeq(f, pos + 1, pos + 4) = <<1, 0, 32, 51>>)
    THEN 1 + SegmentsFrom(f, pos + SegmentSize)
    ELSE 0

\* C9: in the directory of an indexed file the offsets increase, and entry
\* e + 1 starts where the last segment of entry e ends: at the offset of e
\* plus the entry header plus the segments of e.
C9_OffsetsContiguous ==
    (mode = "r") =>
        \A e \in 1..(p2.lastentry - 1) :
            /\ p2.poscache[e] < p2.poscache[e + 1]
            /\ p2.poscache[e + 1] = p2.poscache[e] + EntryHdrSize
                  + SegmentsFrom(file, p2.poscache[e] + EntryHdrSize) * SegmentSize

\* a file was indexed whose first entry (2048 samples) has two segments
C9_Witness ==
    /\ mode = "r"
    /\ p2.lastentry = 2
    /\ hist[1].n = 2048
    /\ p2.poscache[1] = 0
    /\ p2.poscache[2] = EntryHdrSize + 2 * SegmentSize

\* C10: a failure of the stream under a write, a seek to the next entry or a
\* close is reported by the call (its status is not success).
C10_StreamFailureReported ==
    ((ret.op \in {"write", "seek", "close"}) /\ ret.failed) => (ret.rc # 0)

\* the bytes of f at pos are the header of entry e: control word 3 and init_key
IsEntryHdr(f, pos, e) ==
    /\ pos + EntryHdrSize <= Len(f)
    /\ SubSeq(f, pos + 1, pos + 2 + KeyLen) = <<3, 0>> \o InitKey(e)

\* no entry header starts in f at or after offset from (control word 3, then
\* " 2" and the first character of the file name)
NoEntryHdrFrom(f, from) ==
    \A q \in from..(Len(f) - 5) :
        ~((f[q + 1] = 3) /\ (f[q + 2] = 0) /\ (f[q + 3] = 32) /\ (f[q + 4] = 50)
            /\ (f[q + 5] = basename[1]))

\* the entry h of n > 0 samples ends f: whole segments, the last one carrying
\* the sample count of the entry
FinalizedIn(f, h) ==
    (h.n > 0) =>
        /\ Len(f) >= h.hdrpos + EntryHdrSize + SegmentSize
        /\ (Len(f) - h.hdrpos - EntryHdrSize) % SegmentSize = 0
        /\ Int32(SubSeq(f, Len(f) - SegmentSize + 31, Len(f) - SegmentSize + 34)) = h.n

\* C11: on a write handle whose stream does not fail, a write puts an entry
\* header in the file exactly when it is the first call after open or the
\* first write after a seek (and then one header, at the end of the file, for
\* the current entry); a seek or a close that follows a write finalizes the
\* started entry and writes no header; a seek or a close with no started
\* entry leaves the file as it is.
C11_EntryLifecycle ==
    [][(mode = "w") =>
        /\ (ret'.op = "write") =>
              /\ SubSeq(file', 1, Len(file)) = file
              /\ IF ret.op \in {"open", "seek"}
                 THEN /\ IsEntryHdr(file', Len(file), fp.entry)
                      /\ NoEntryHdrFrom(file', Len(file) + EntryHdrSize)
                      /\ Len(hist') = Len(hist) + 1
                 ELSE /\ NoEntryHdrFrom(file', Len(file))
                      /\ Len(hist') = Len(hist)
        /\ (ret'.op \in {"seek", "close"}) =>
              IF ret.op = "write"
              THEN /\ FinalizedIn(file', hist[Len(hist)])
                   /\ NoEntryHdrFrom(file', Len(file))
                   /\ hist'[Len(hist)].closed /\ ~hist[Len(hist)].closed
              ELSE file' = file]_vars

\* the second entry was started by the first write after a seek that closed
\* the first entry: its header stands where the finished first entry ends
C11_Witness ==
    /\ mode = "w"
    /\ ret.op = "write"
    /\ Len(hist) = 2
    /\ hist[1].closed /\ ~hist[2].closed
    /\ hist[1].n = 952
    /\ hist[2].hdrpos = EntryHdrSize + SegmentSize
    /\ IsEntryHdr(file, hist[2].hdrpos, hist[2].entry)

\* C12: over any sequence of read, seek, control and close calls on a read
\* handle at most one scratch buffer is held, and it is the one the handle
\* points to; a read that fails holds none on return; after close neither a
\* buffer nor the temporary file behind a mapping is held.
C12_OneScratchBuffer ==
    /\ mem.mmap + mem.malloc <= 1
    /\ (mode = "r") =>
          /\ mem.mmap = (IF fp.addr = "mmap" THEN 1 ELSE 0)
          /\ mem.malloc = (IF fp.addr = "malloc" THEN 1 ELSE 0)
          /\ mem.fd = (IF fp.tempnam THEN 1 ELSE 0)
          /\ ((out.op = "read") /\ (out.rc # 0)) => (mem.mmap + mem.malloc = 0)
    /\ (mode # "r") => (mem = NoMem)

\* a second read that got a heap block after the first had made the
\* temporary file and failed
C12_Witness ==
    /\ mode = "r" /\ ret.op = "read" /\ ret.rc = 0 /\ nops = 2
    /\ fp.addr = "malloc" /\ mem = [mmap |-> 0, malloc |-> 1, fd |-> 1]

C14_DirectoryKept ==
    (mode = "r") =>
        /\ p2.lastentry = Len(seen.dir)
        /\ Directory(p2) = seen.dir

\* a second read on the handle, of entry 1 of two, that ran into the header
\* of entry 2 and stored its position
C14_Witness ==
    /\ mode = "r" /\ out.op = "read" /\ out.rc = 0 /\ out.entry = 1 /\ out.why = "entry"
    /\ nops = 2 /\ p2.lastentry = 2 /\ Len(seen.dir) = 2
    /\ p2.poscache[2] = seen.dir[2].pos

\* what the lookup of entry e should be by the claim as it reads (plain) and
\* with the one exception the code makes: a stored value with all bits set
\* (a sample rate of -1, a timestamp of 2^64 - 1) is returned as 0
GetInfoAnswers(plain) ==
    LET e == out.entry
        d == seen.dir
    IN  /\ out.p2 = out.before
        /\ IF (e <= 0) \/ (e > Len(d)) \/ (d[e].size = -1)
           THEN out.rc = -1
           ELSE /\ out.rc = 0
                /\ out.entrysize = d[e].size
                /\ out.nentries = Len(d)
                /\ out.samplerate = (IF ~plain /\ (d[e].sr = -1) THEN 0 ELSE d[e].sr)
                /\ out.datetime = (IF ~plain /\ (d[e].time = [i \in 1..8 |-> 255])
                                   THEN Zeros(8) ELSE d[e].time)

\* C15 as claimed: pcmseq2_getinfo fails for entry <= 0, entry > entry count
\* and an entry with no recorded size; otherwise it returns the directory's
\* sample count, sample rate, timestamp and entry count of the entry; either
\* way the directory, the current entry and the file position stay as they
\* were.
C15_GetInfoPlain ==
    ((mode = "r") /\ (out.op = "info")) => GetInfoAnswers(TRUE)

\* C15, amended: as claimed, except that a directory sample rate of -1 and a
\* directory timestamp of 2^64 - 1 are returned as 0.
C15_GetInfo ==
    ((mode = "r") /\ (out.op = "info")) => GetInfoAnswers(FALSE)

\* the lookup of entry 2 of two, written at a sample rate of -1, after a read
\* moved the file position
C15_Witness ==
    /\ mode = "r" /\ out.op = "info" /\ out.entry = 2 /\ out.rc = 0
    /\ out.entrysize = 952 /\ out.nentries = 2
    /\ seen.dir[2].sr = -1 /\ out.samplerate = 0
    /\ p2.r.pos > 0

\* the episode of the time t: the one whose start is the largest start <= t
EpisodeOf(starts, t) ==
    CHOOSE e \in 1..Len(starts) :
        /\ starts[e] <= t
        /\ \A d \in 1..Len(starts) : (starts[d] <= t) => (starts[d] <= starts[e])

\* the events of the cluster c from the i-th on that fall in episode e, each
\* as its time less the start of the episode
RECURSIVE Aligned(_, _, _, _)
Aligned(a, c, e, i) ==
    IF i > Len(a.times) THEN <<>>
    ELSE (IF (a.clu[i + 1] = c) /\ (EpisodeOf(a.atimes, a.times[i]) = e)
          THEN <<a.times[i] - a.atimes[e]>> ELSE <<>>)
         \o Aligned(a, c, e, i + 1)

\* C16: with episode starts and event times sorted ascending (and no event
\* before the first start), sort_unit_episode returns under each episode the
\* events whose time t has that episode's start as the largest start <= t,
\* each as t - start, in the order of the file; for the starts [0,100,250]
\* and the times [10,105,260,300] that is [10], [5], [10,50].
C16_AlignedToEpisodes ==
    ((al.pc = "done") /\ (al.times[1] >= al.atimes[1])) =>
        \A c \in DOMAIN al.uvec : \A e \in 1..Len(al.atimes) :
            al.uvec[c][e] = Aligned(al, c, e, 1)

\* the seconds and microseconds whose tick values the files hold; the tick
\* value of <<s, u>> is d = 0x007c95674beb4000 + (s - 18000) * 10^7 + 10 * u,
\* for which (d - 0x007c95674beb4000) div 10^7 + 18000 = s and
\* ((d - 0x007c95674beb4000) mod 10^7) div 10 = u
Stamps == (SStamps \ {<<0, 0>>}) \cup WallClock

\* C17: pcm_stat converts the stored tick value d of the current entry to
\* the seconds (d - 0x007c95674beb4000) div 10,000,000 + 18000 and the
\* microseconds ((d - 0x007c95674beb4000) mod 10,000,000) div 10; 50,000,000
\* ticks after the constant give 18005 seconds and 0 microseconds.
C17_StatConverts ==
    ((mode = "r") /\ (out.op = "stat") /\ (out.rc = 0)) =>
        \A st \in Stamps :
            (seen.dir[out.entry].time = lltime(st[1], st[2])) =>
                /\ out.buf.timestamp = st[1]
                /\ out.buf.microtimestamp = st[2]

\* C18: pcm_read on a handle opened for writing and pcm_write on a handle
\* opened for reading return -1, and leave the handle (current entry,
\* directory, writer state), the file and the scratch memory as they were.
C18_WrongModeRefused ==
    [][(((mode = "w") /\ (ret'.op = "read")) \/ ((mode = "r") /\ (ret'.op = "write"))) =>
          /\ ret'.rc = -1
          /\ UNCHANGED <<mode, file, fp, hist, p2, mem, seen>>]_vars

\* a write refused by a read handle that holds the samples of entry 2, of
\* a file whose writer had a read refused
C18_Witness ==
    /\ mode = "r" /\ ret.op = "write" /\ ret.rc = -1
    /\ fp.entry = 2 /\ fp.addr = "mmap" /\ out.op = "read" /\ out.rc = 0
    /\ Len(hist) = 2

\* C19: no peak detect_spikes reports lies more than n_after samples after
\* the sample that crossed the threshold: a crossing whose peak is not found
\* within n_after samples is dropped as an artifact.
C19_PeakWithinNAfter ==
    (ds.pc = "made") => \A k \in 1..Len(ds.lags) : ds.lags[k] <= ds.n_after

\* C20: however the stream is split into the blocks of successive send
\* calls, the peaks returned (index in the block plus the position of the
\* block in the stream) are those of one send of all that was sent.
C20_BlocksAsOneSend ==
    (ds.pc = "made") =>
        ds.peaks = Send(Made(ds.thresh, ds.n_after, ds.stream),
                        SubSeq(ds.stream, 1, ds.sent)).out

\* the whole stream was sent in several blocks, and the last call, of one
\* sample, returned the index -1: the peak is the last sample of the block
\* before it
C20_Witness ==
    /\ ds.pc = "made" /\ ds.sent = Len(ds.stream) /\ ds.sent > 2
    /\ ds.out = <<-1>> /\ ds.i = 1 /\ ds.peaks = <<ds.sent - 2>>

\* the recordwords field of the segment header at offset seg of f
RecordWords(f, seg) == Int32(SubSeq(f, seg + 31, seg + 34))

\* the bytes of f at seg are a segment header of the entry numbered e
IsSegHdr(f, seg, e) ==
    /\ seg + SegHdrRead - 2 <= Len(f)
    /\ SubSeq(f, seg + 1, seg + 2 + KeyLen) = <<1, 0>> \o MatchKey(InitKey(e))

\* the last entry the writer started
LastEntry == hist[Len(hist)]

\* the number of segments that lie in the file after the header of the last
\* entry
LastEntrySegments == (Len(file) - LastEntry.hdrpos - EntryHdrSize) \div SegmentSize

\* the offset of segment i (from 0) of the last entry
LastEntrySegment(i) == LastEntry.hdrpos + EntryHdrSize + i * SegmentSize

\* the last entry was closed with at least one sample in it
ClosedWithSamples == (Len(hist) >= 1) /\ LastEntry.closed /\ (LastEntry.n > 0)

\* C21: once an entry of N > 0 samples is closed, the file ends with its
\* segments, the header of the last of them carries recordwords = N, the
\* header of every segment before it carries 0, and the write handle stands
\* at the end of the file.
C21_RecordWordsOfClosedEntry ==
    ClosedWithSamples =>
        /\ LastEntrySegments >= 1
        /\ Len(file) = LastEntrySegment(LastEntrySegments)
        /\ \A i \in 0..(LastEntrySegments - 1) :
              /\ IsSegHdr(file, LastEntrySegment(i), LastEntry.entry)
              /\ RecordWords(file, LastEntrySegment(i))
                    = (IF i = LastEntrySegments - 1 THEN LastEntry.n ELSE 0)
        /\ (mode = "w") => (fp.pos = Len(file))

\* a second entry of 4096 samples was closed by a seek: it has three
\* segments, and the handle is still open
C21_Witness ==
    /\ ClosedWithSamples
    /\ mode = "w"
    /\ Len(hist) = 2
    /\ LastEntry.n = 2 * SegmentSamples
    /\ LastEntrySegments = 3

\* the offset in f of the slot of sample j (from 0) of the last entry
LastEntrySlot(j) ==
    LastEntrySegment(j \div SegmentSamples) + NextSampleOffset(j % SegmentSamples)

\* the segment of f at seg is whole: the control words of its three
\* sub-blocks stand before 1005, 1021 and 22 sample slots
WholeSegment(f, seg) ==
    /\ seg + SegmentSize <= Len(f)
    /\ SubSeq(f, seg + 1, seg + 2) = <<1, 0>>
    /\ SubSeq(f, seg + SegHdrRead - 2 + 2 * Block1 + 1, seg + SegHdrRead + 2 * Block1) = <<0, 0>>
    /\ SubSeq(f, seg + SegHdrRead + 2 * Block12 + 1, seg + SegHdrRead + 2 + 2 * Block12) = <<2, 0>>
    /\ SegHdrRead + 2 + 2 * SegmentSamples = SegmentSize

\* the seek or the close of the write handle that closed the last entry has
\* left it as a padded entry: whole segments that end the file, the samples
\* written, zeros in every slot after them, and cursamp at 0, or at ofempty
\* when no sample was written to the entry
PaddedEntry(ofempty) ==
    ((Len(hist) >= 1) /\ LastEntry.closed /\ (ret.op \in {"seek", "close"})
        /\ (mode \in {"w", "disk"})) =>
        /\ (LastEntry.n > 0) =>
              /\ LastEntrySegments >= 1
              /\ Len(file) = LastEntrySegment(LastEntrySegments)
              /\ \A i \in 0..(LastEntrySegments - 1) : WholeSegment(file, LastEntrySegment(i))
              /\ \A j \in 0..(LastEntrySegments * SegmentSamples - 1) :
                    SubSeq(file, LastEntrySlot(j) + 1, LastEntrySlot(j) + 2)
                      = (IF j < LastEntry.n THEN Le16(SampleVal(Len(hist), j)) ELSE <<0, 0>>)
        /\ (mode = "w") => (fp.cursamp = (IF LastEntry.n > 0 THEN 0 ELSE ofempty))

PassSamples(w) ==
    LET togo == (IF w.state = FIRSTSEG THEN Block1
                 ELSE IF w.state = MIDDLESEG THEN Block12 ELSE SegmentSamples) - w.cursamp
    IN  IF w.nsamples < togo THEN w.nsamples ELSE togo

\* the segment of the entry being written in which offset pos lies
SegmentAt(pos) ==
    wd.hdrpos + EntryHdrSize
        + ((pos - wd.hdrpos - EntryHdrSize) \div SegmentSize) * SegmentSize

\* one pass of the loop of pcmseq2_write_data took the locals from w to w2:
\* the block state stays or moves one step in the cycle, at cursamp 1005,
\* 2026 and 2048; the samples go to the end of the file, into a segment
\* whose header is there; the control word 0 follows them on entering
\* MIDDLE, the control word 2 on entering LAST, and on entering FIRST a
\* segment header (control word 1, match key, recordwords), which may be
\* left out of a closing call when noheader says so
BlockPass(w, w2, noheader) ==
    LET n == PassSamples(w)
        samples == SubSeq(w.data, 2 * w.ptr + 1, 2 * (w.ptr + n))
        wrote == SubSeq(w2.s.f, w.s.pos + 1, Len(w2.s.f))
    IN  /\ w.s.pos = Len(w.s.f)
        /\ w2.s.pos = Len(w2.s.f)
        /\ SubSeq(w2.s.f, 1, w.s.pos) = w.s.f
        /\ (n > 0) => IsSegHdr(w.s.f, SegmentAt(w.s.pos), wd.k)
        /\ IF w2.state = w.state
           THEN /\ w2.cursamp = w.cursamp + n
                /\ SegState(w2.cursamp) = w.state
                /\ wrote = samples
           ELSE IF (w.state = FIRSTSEG) /\ (w2.state = MIDDLESEG)
           THEN /\ w.cursamp + n = Block1
                /\ w2.cursamp = Block1
                /\ wrote = samples \o <<0, 0>>
           ELSE IF (w.state = MIDDLESEG) /\ (w2.state = LASTSEG)
           THEN /\ w.cursamp + n = Block12
                /\ w2.cursamp = Block12
                /\ wrote = samples \o <<2, 0>>
           ELSE /\ (w.state = LASTSEG) /\ (w2.state = FIRSTSEG)
                /\ w.cursamp + n = SegmentSamples
                /\ w2.cursamp = 0
                /\ IF noheader /\ (wd.lastsegment # 0) /\ (w.nsamples = n)
                   THEN wrote = samples
                   ELSE \E recordwords \in {0, wd.h.entrysize + wd.nsamples} :
                           wrote = samples \o <<1, 0>> \o wd.h.key \o Le32(recordwords)

\* C23 as the specification states it: every pass of write_data keeps the
\* block state or moves it one step in the cycle FIRST -> MIDDLE -> LAST ->
\* FIRST, at cursamp 1005, 2026 and 2048, writing the control word 0 on
\* entering MIDDLE, 2 on entering LAST and a segment header on entering
\* FIRST, and writes samples only into a segment whose header is written.
C23_BlockCycleHeaderAlways ==
    [][((wd.pc = "loop") /\ (wd'.pc = "loop")) => BlockPass(wd.w, wd'.w, FALSE)]_vars

\* C23, with the closing call set apart: as above, but when the zero padding
\* of a closing call reaches sample 2048 the state goes back to FIRST and
\* no segment header is written.
C23_BlockCycle ==
    [][((wd.pc = "loop") /\ (wd'.pc = "loop")) => BlockPass(wd.w, wd'.w, TRUE)]_vars

\* a write that crosses from the second entry's first segment into its
\* second has come back to FIRST: the header of the second segment is
\* written and samples are left to go
C23_Witness ==
    /\ wd.pc = "loop"
    /\ wd.k = 2
    /\ wd.lastsegment = 0
    /\ wd.w.state = FIRSTSEG
    /\ wd.w.cursamp = 0
    /\ wd.w.nsamples > 0
    /\ wd.off + wd.w.ptr = SegmentSamples
    /\ IsSegHdr(wd.w.s.f, wd.hdrpos + EntryHdrSize + SegmentSize, 2)

\* entrysegments as pcmseq2_indexfile derives it from recordwords
EntrySegments(recordwords) == (recordwords + SegmentSamples - 1) \div SegmentSamples

\* C24: a closed entry of N > 0 samples lies in exactly ceil(N / 2048)
\* segments of the file, the number the indexer computes from recordwords = N.
C24_SegmentsOfClosedEntry ==
    ClosedWithSamples =>
        /\ Len(file) = LastEntrySegment(LastEntrySegments)
        /\ LastEntrySegments = EntrySegments(LastEntry.n)

\* the segment of the last entry in which the file ends
EndSegment ==
    LastEntrySegment((Len(file) - LastEntry.hdrpos - EntryHdrSize - 1) \div SegmentSize)

\* C25: the seek or the close that closes the started entry changes, of the
\* bytes the file had, only the recordwords field of a segment header of
\* that entry: nothing before the field and nothing after it, and when no
\* sample was written to the entry (it has no segment) the file is left as
\* it was.
C25_BackpatchInsideEntry ==
    [][((mode = "w") /\ (fp.entrystarted # 0) /\ (ret'.op \in {"seek", "close"})) =>
          IF LastEntry.n = 0
          THEN file' = file
          ELSE /\ IsSegHdr(file, EndSegment, LastEntry.entry)
               /\ SubSeq(file', 1, EndSegment + SegHdrRead - 6)
                     = SubSeq(file, 1, EndSegment + SegHdrRead - 6)
               /\ SubSeq(file', EndSegment + SegHdrRead - 1, Len(file))
                     = SubSeq(file, EndSegment + SegHdrRead - 1, Len(file))]_vars

\* C26: a write that has to start an entry and fails to write its header
\* leaves the entry not started, so that the next write on the handle writes
\* the header; and a write appends samples only to an entry whose header is
\* in the file.
C26_FailedHeaderNotStarted ==
    [][((mode = "w") /\ (ret'.op = "write")) =>
          /\ ((fp.entrystarted = 0) /\ ~IsEntryHdr(file', Len(file), fp.entry)) =>
                (fp'.entrystarted = 0)
          /\ ((fp.entrystarted # 0) /\ (file' # file)) =>
                IsEntryHdr(file, LastEntry.hdrpos, LastEntry.entry)]_vars

\* the stream after the entries i.. of the history hs are written to the
\* handle h, each with all its samples in one write, and closed if it is
\* closed in hs
RECURSIVE WriteWhole(_, _, _)
WriteWhole(h, hs, i) ==
    IF i > Len(hs) THEN h.s
    ELSE LET clock == CHOOSE c \in WallClock : TRUE
             close(hd) == IF hs[i].closed THEN pcmseq2_write_data(hd, <<>>, 0, 1) ELSE hd
             data(hd) == close(pcmseq2_write_data(hd, Chunk(i, 0, hs[i].n), hs[i].n, 0))
         IN  WriteWhole(data(pcmseq2_write_hdr([h EXCEPT !.entry = hs[i].entry], clock)),
                        hs, i + 1)

\* the file a fresh write handle leaves when the entries of hist are written
\* whole, pcmseq3_poscache holding pc before it is first assigned
WholeFile(pc) ==
    WriteWhole([s |-> [f |-> <<>>, pos |-> 0, err |-> FALSE, rc |-> 0],
                entry |-> 1, cursamp |-> 0, entrysize |-> 0, poscache |-> pc,
                key |-> Zeros(KeyLen), samplerate |-> DefaultSampleRate,
                timestamp |-> 0, microtimestamp |-> 0, rc |-> 0], hist, 1).f

\* C27: whatever the lengths of the writes that made the entries (empty
\* writes included), the bytes the writer has put in the file are those it
\* puts there when every entry is written with one write of all its samples.
C27_SplitOfWritesIrrelevant ==
    ((mode \in {"w", "disk"}) /\ (ret.op \in {"write", "seek", "close"})) =>
        \E pc \in UninitPos : file = WholeFile(pc)

\* two closed entries on disk, of 3000 samples (2048 and 952, or 952 and
\* 2048) and of 1904 samples (twice 952)
C27_Witness ==
    /\ mode = "disk"
    /\ ret.op = "close"
    /\ Len(hist) = 2
    /\ hist[1].n = 3000
    /\ hist[2].n = 1904
    /\ hist[2].closed

\* C28: started at a segment header of an entry, the scan for the start of
\* the entry ends, with success, at the first byte of the header of that
\* entry; from pass to pass its stride does not grow, and it seeks to no
\* offset below 0.
C28_ScanEndsAtEntryHeader ==
    [][/\ (ix.pc = "scan") => (ix'.step <= ix.step) /\ (ix'.sought >= 0)
       /\ ((ix.pc = "scan") /\ (ix'.pc = "scanned")) =>
             (ix'.rc = 0) /\ (ix'.pos = hist[ix.entry].hdrpos)]_vars

\* the segment header a pass of the index loop reads, and the offset at
\* which the pass expects the entry header: a whole number of segments
\* before the end of this one, or where the scan for the entry start ended
PassSegHdr(f, x) == fread(f, x.r, SegHdrRead)

ComputedStart(f, x) ==
    LET sh == PassSegHdr(f, x)
        tmppos == sh.r.pos - SegHdrRead
        segsize == SegSizeOf(x.type)
        rw == Int32(SubSeq(sh.bytes, HdrOff(x.type) + 31, HdrOff(x.type) + 34))
    IN  IF (rw = 0) \/ (rw = -1)
        THEN pcmseq2_scantoentrystart(f, tmppos, x.type).pos
        ELSE tmppos + segsize - CDiv(rw + SegmentSamples - 1, SegmentSamples) * segsize
                 - EntHdrSizeOf(x.type)

\* the 56 bytes at pos pass the validation of an entry header
EntHdrAt(f, pos, type) ==
    (pos >= 0) /\ ValidEntHdr(fread(f, [pos |-> pos, eof |-> FALSE], EntHdrRead), type)

\* a pass of the index loop that found its segment header and, where it had
\* to scan, the start of the entry
PassProbes(f, x) ==
    LET sh == PassSegHdr(f, x)
        rw == Int32(SubSeq(sh.bytes, HdrOff(x.type) + 31, HdrOff(x.type) + 34))
    IN  /\ ValidSegHdr(sh, x.type)
        /\ ((rw = 0) \/ (rw = -1)) =>
              (pcmseq2_scantoentrystart(f, sh.r.pos - SegHdrRead, x.type).rc = 0)

\* C29: a pass of the index loop validates the entry header at the computed
\* start offset and records the entry there; if that fails it validates
\* once more one segment earlier and records the entry there; if that fails
\* too indexing fails, and the open that follows returns no handle and
\* leaves no directory.
C29_HeaderRetriedOnce ==
    [][/\ ((mode = "index") /\ (ix.pc = "loop") /\ PassProbes(file, ix)) =>
            LET start == ComputedStart(file, ix)
                back == start - SegSizeOf(ix.type)
                c == ix.curentry
            IN  IF EntHdrAt(file, start, ix.type)
                THEN (ix'.pc # "fail") /\ (ix'.poscache[c] = start)
                ELSE IF EntHdrAt(file, back, ix.type)
                THEN (ix'.pc # "fail") /\ (ix'.poscache[c] = back)
                ELSE ix'.pc = "fail"
       /\ ((mode = "index") /\ (ix.pc = "fail")) =>
            /\ mode' = "disk"
            /\ ret'.op = "open" /\ ret'.rc = -1
            /\ p2' = NoP2
            /\ seen' = NoSeen]_vars


\* an open that failed after both validations of the header of the first
\* entry of a file of two failed, the last entry having been recorded
C29_Witness ==
    /\ OpenFailed
    /\ tamper = "corrupted"
    /\ Len(hist) = 2
    /\ ~EntHdrAt(file, hist[1].hdrpos, 2)
    /\ EntHdrAt(file, hist[2].hdrpos, 2)
    /\ p2 = NoP2
    /\ seen = NoSeen

\* C30: the directory never holds more entries than its capacity of 500;
\* whatever the number of entries in the file, neither indexing nor reading
\* records an entry at an ordinal outside the bounds 0..499 of the arrays.
C30_DirectoryWithinCapacity ==
    LET within(x) ==
            \A i \in (DOMAIN x.poscache) \cup (DOMAIN x.sizecache)
                     \cup (DOMAIN x.srcache) \cup (DOMAIN x.timecache) :
                i \in 0..(CACHESIZE - 1)
    IN  /\ (mode = "index") => within(ix)
        /\ (mode = "r") => (p2.lastentry <= CACHESIZE) /\ within(p2)

\* C31: every step of indexing uses the segment size and the header size of
\* the sub-format detected from byte 0 of the file; the pass that finds no
\* segment header at the end of the file searches the segment before it, and
\* reads the first entry header, with the sizes of that sub-format (4140 and
\* 56 bytes for type 1, 4134 and 54 bytes for type 2).
C31_RecoveryUsesDetectedFormat ==
    ((mode = "index") /\ (ix.pc = "loop") /\ (ix.curentry = 1)
        /\ ~ValidSegHdr(PassSegHdr(Disk, ix), ix.type)) =>
        /\ SegSizeOf(ix.p2type) = SegSizeOf(ix.type)
        /\ EntHdrSizeOf(ix.p2type) = EntHdrSizeOf(ix.type)

\* C32: for every timestamp of T > 0 seconds and 0 <= U < 1,000,000
\* microseconds set on the write handle before an entry is started, stat on
\* that entry of the reopened file returns the seconds T and the
\* microseconds U: decoding undoes the encoding of the entry header.
C32_TimestampRoundTrip ==
    ((mode = "r") /\ (out.op = "stat") /\ (out.rc = 0) /\ (out.entry \in DOMAIN hist)) =>
        \A st \in SStamps :
            ((st[1] > 0) /\ (hist[out.entry].time = lltime(st[1], st[2]))) =>
                /\ out.buf.timestamp = st[1]
                /\ out.buf.microtimestamp = st[2]

\* C33: when the time of an event of a kept cluster is smaller than the
\* start of the current episode, sort_unit_episode prints a warning, does
\* not fail, and puts the event under the current episode; in every pass of
\* its loop the episode index does not decrease and stays below the number
\* of episodes.
C33_EarlyEventWarned ==
    [][((al.pc = "loop") /\ (al.rp # EOF)) =>
          /\ ((al'.clust \in al.clusters) /\ (al'.atime < al.et)) =>
                /\ al'.warned = al.warned + 1
                /\ al'.pc = "loop"
                /\ al'.episode = al.episode
                /\ al'.uvec[al'.clust][al.episode + 1] =
                       Append(al.uvec[al'.clust][al.episode + 1], al'.atime - al.et)
          /\ al'.episode >= al.episode
          /\ al'.episode < Len(al.atimes)]_vars

\* C34: sort_unit_episode reads the vector of episode starts only at
\* indices from 0 up to, and not including, the number of episodes.
C34_StartsReadInRange ==
    \A i \in al.read : (0 <= i) /\ (i < Len(al.atimes))

\* the retained events of the cluster file: the lines whose cluster is kept
RetainedEvents == {i \in 1..Len(al.times) : al.clu[i + 1] \in al.clusters}

RECURSIVE Emitted(_, _)
\* the number of offsets in the episodes e..Len(u) of one cluster's vector u
Emitted(u, e) == IF e > Len(u) THEN 0 ELSE Len(u[e]) + Emitted(u, e + 1)

RECURSIVE EmittedAll(_, _)
\* the number of offsets under the clusters cs of uvec
EmittedAll(uvec, cs) ==
    IF cs = {} THEN 0
    ELSE LET c == CHOOSE c \in cs : TRUE
         IN  Emitted(uvec[c], 1) + EmittedAll(uvec, cs \ {c})

\* C35: when sort_unit_episode returns, the number of offsets it emitted is
\* the number of events of the input whose cluster is retained: every such
\* event is emitted once, the last one included.
C35_EachEventOnce ==
    (al.pc = "done") =>
        EmittedAll(al.uvec, DOMAIN al.uvec) = Cardinality(RetainedEvents)

\* the block the handle h points to was obtained the way h.memalloctype
\* says, so munmap or free, chosen by h.memalloctype, is the matching release
HeldAsAcquired(h) ==
    /\ (h.addr = "mmap") => (h.memalloctype = PCMIOMMAP)
    /\ (h.addr = "malloc") => (h.memalloctype = PCMIOMALLOC)

\* C36: over any sequence of control, read, seek and close calls on a read
\* handle, the allocation strategy of the handle does not change while it
\* holds a scratch buffer, so the buffer it holds was always obtained by the
\* method its strategy names and is released by the matching one.
C36_StrategyKeptWhileHeld ==
    [][/\ ((mode = "r") /\ (fp.addr # "null") /\ (mode' = "r")) =>
             (fp'.memalloctype = fp.memalloctype)
       /\ (mode' = "r") => HeldAsAcquired(fp')]_vars

\* a request for the heap strategy was made of a handle that holds a mapped
\* buffer, and the handle still maps
C36_Witness ==
    /\ mode = "r" /\ out.op = "ctl" /\ out.request = PCMIOMALLOC
    /\ fp.addr = "mmap" /\ fp.memalloctype = PCMIOMMAP

\* the sample x lies on the side of the threshold that triggers the detector d
Triggering(d, x) == IF d.thresh > 0 THEN x > d.thresh ELSE x < d.thresh

\* C37: between two peaks detect_spikes reports there is a sample that is
\* not on the triggering side of the threshold: after a peak no further
\* peak is reported until the signal has returned, so an excursion past
\* the threshold, positive or negative, gives at most one peak.
C37_OnePeakPerExcursion ==
    (ds.pc = "made") =>
        \A k \in 1..(Len(ds.peaks) - 1) :
            \E j \in (ds.peaks[k] + 1)..(ds.peaks[k + 1] - 1) :
                ~Triggering(ds, ds.stream[j + 1])

\* the signal fell after its peak, stayed past the threshold for another
\* sample and fell again: one peak was reported
C37_Witness ==
    /\ ds.pc = "made" /\ ds.thresh = 2 /\ ds.stream = <<5, 3, 3, 0>>
    /\ ds.sent = 4 /\ ds.peaks = <<0>>

\* C38: every index a send call returns is a position in the block of that
\* call: at least 0 and less than the number of samples of the block.
C38_IndexInBlock ==
    (ds.pc = "made") => \A k \in 1..Len(ds.out) : (0 <= ds.out[k]) /\ (ds.out[k] < ds.i)

(***************************************************************************)
(* spike_times of spikes.c: sp holds the arguments, the memory behind the  *)
(* samples (past), the array out and the loop index i.  version names the  *)
(* source: "refrac" for src/spikes.c, whose loop index jumps refrac past   *)
(* the peak, "below" for part_001, which looks for the first sample below  *)
(* the threshold.                                                          *)
(***************************************************************************)
MaxSamples == 3
MaxWindow == 2

\* samples[j]; past the end of the array the read gives what lies there
SampleAt(s, j) ==
    IF j < s.nsamples THEN s.samples[j + 1] ELSE s.past[j - s.nsamples + 1]

\* for (j = i + 1; j < i + window; j++): the peak in the window from j on
RECURSIVE PeakFrom(_, _, _)
PeakFrom(s, j, peak) ==
    IF j < s.i + s.window
    THEN PeakFrom(s, j + 1, IF SampleAt(s, j) > peak.val
                            THEN [ind |-> j, val |-> SampleAt(s, j)] ELSE peak)
    ELSE peak

\* if (peak_ind > window && peak_ind + window < nsamples) out[peak_ind] = 1
MarkPeak(s, peak_ind) ==
    IF (peak_ind > s.window) /\ (peak_ind + s.window < s.nsamples)
    THEN [s EXCEPT !.out[peak_ind + 1] = 1]
    ELSE s

\* for (i = peak_ind; i < nsamples && samples[i] > thresh; ++i) {}
RECURSIVE FirstBelow(_, _)
FirstBelow(s, i) ==
    IF (i < s.nsamples) /\ (SampleAt(s, i) > s.thresh) THEN FirstBelow(s, i + 1) ELSE i

\* i = peak_ind + refrac - 1
PastRefrac(s, peak_ind) == peak_ind + s.refrac - 1

\* the body of the outer loop for the sample at s.i, and its i++
spike_times_body(s) ==
    LET peak == PeakFrom(s, s.i + 1, [ind |-> s.i, val |-> SampleAt(s, s.i)])
        next(t) == [t EXCEPT !.i = t.i + 1]
    IN  next(
          IF SampleAt(s, s.i) > s.thresh
          THEN [MarkPeak(s, peak.ind) EXCEPT
                    !.i = IF s.version = "refrac" THEN PastRefrac(s, peak.ind)
                          ELSE FirstBelow(s, peak.ind)]
          ELSE s)

\* one pass of for (i = 0; i < nsamples; i++)
spike_times_pass ==
    /\ sp.pc = "loop"
    /\ sp.i < sp.nsamples
    /\ sp' = spike_times_body(sp)
    /\ UNCHANGED <<pcmvars, al, ds, wd, rows>>

\* the loop ends and the function returns
spike_times_return ==
    /\ sp.pc = "loop"
    /\ sp.i >= sp.nsamples
    /\ sp' = [sp EXCEPT !.pc = "done"]
    /\ UNCHANGED <<pcmvars, al, ds, wd, rows>>

PValues == {0, 2, 3}
PThresh == {1}
PWindows == 0..MaxWindow
PRefracs == {0, 1, 2}

\* spike_times was called: memset(out, 0, ...) and i = 0
InitP ==
    /\ NoPcm
    /\ al = NoAl
    /\ ds = NoDs
    /\ wd = NoWd
    /\ rows = 0
    /\ \E n \in 0..MaxSamples, thresh \in PThresh, window \in PWindows,
          refrac \in PRefracs, version \in {"refrac", "below"} :
         \E samples \in [1..n -> PValues], past \in [1..(MaxWindow - 1) -> PValues] :
            sp = [pc |-> "loop", version |-> version, samples |-> samples, past |-> past,
                  nsamples |-> n, thresh |-> thresh, window |-> window,
                  refrac |-> IF version = "refrac" THEN refrac ELSE 0,
                  out |-> [k \in 1..n |-> 0], i |-> 0]

NextP == spike_times_pass \/ spike_times_return

SpecP == InitP /\ [][NextP]_vars

\* the sample at the loop index crosses the threshold
Crossing(s) == (s.pc = "loop") /\ (s.i < s.nsamples) /\ (SampleAt(s, s.i) > s.thresh)

\* C39: spike_times terminates, whatever thresh, window and refrac are: the
\* pass of its loop that meets a sample above the threshold leaves the loop
\* index past where it was.
C39_ScanAdvances ==
    Crossing(sp) => (spike_times_body(sp).i > sp.i)

====
